---------------------------- MODULE Spec2Model ----------------------------
(***************************************************************************)
(* A model of the retrieval-augmented question-answering core of the       *)
(* bridge-agent application: the chunker, the local deterministic          *)
(* embedding, the local (module-level) vector store, the remote vector     *)
(* index, and the RAG service's ingest / remove / search / ask handlers.   *)
(*                                                                         *)
(* Text is a sequence of UTF-16 code units (what charCodeAt returns), so   *)
(* that splitting, trimming and hashing are computed as the code computes  *)
(* them.                                                                   *)
(***************************************************************************)
EXTENDS Integers, Sequences, FiniteSets, TLC

VARIABLES
    chunkText,      \* splitTextIntoChunks: the text argument of the last call
    chunkMax,       \* splitTextIntoChunks: the maxChunkSize argument
    chunkOut,       \* splitTextIntoChunks: the returned chunk list
    chunkCalled,    \* whether splitTextIntoChunks has been called
    env,            \* the bindings every request constructs its services from
    globalVectorStore,  \* the module-level array of vector records
    pineconeIndex,  \* the records held by the remote vector database
    docState,       \* per file id: "never", "added" or "removed" (history)
    last,           \* the request being answered: arguments, result, trace
    inflight,       \* the requests that wait at an await (concurrent requests)
    fnCall          \* a call of a pure function: arguments and returned value

chunkVars == <<chunkText, chunkMax, chunkOut, chunkCalled>>

kbVars == <<env, globalVectorStore, pineconeIndex, docState, last>>

\* the variables a request of the knowledge base leaves alone
restVars == <<chunkText, chunkMax, chunkOut, chunkCalled, inflight, fnCall>>

vars == <<chunkText, chunkMax, chunkOut, chunkCalled,
          env, globalVectorStore, pineconeIndex, docState, last,
          inflight, fnCall>>

-----------------------------------------------------------------------------
(* Generic helpers on sequences and sets of integers.                      *)

SetMin(S) == CHOOSE x \in S : \A y \in S : x <= y

SetMax(S) == CHOOSE x \in S : \A y \in S : x >= y

RECURSIVE Concat(_)
Concat(ss) == IF ss = <<>> THEN <<>> ELSE Head(ss) \o Concat(Tail(ss))

-----------------------------------------------------------------------------
(* Character classes of the regular expressions and of String.trim.        *)

\* \s of a JavaScript regular expression, and the characters trim() removes
\* (the ASCII ones and the no-break space; the model's texts use 10 and 32).
WhiteSpace == {9, 10, 11, 12, 13, 32, 160}

\* the character class [。！？.!?] of the sentence split
SentenceDelims == {12290, 65281, 65311, 46, 33, 63}

\* String.prototype.trim: the text from its first to its last character
\* that is not white space
Trim(s) ==
    IF \A i \in 1..Len(s) : s[i] \in WhiteSpace THEN <<>>
    ELSE SubSeq(s,
                CHOOSE i \in 1..Len(s) :
                    s[i] \notin WhiteSpace /\ \A j \in 1..(i - 1) : s[j] \in WhiteSpace,
                CHOOSE i \in 1..Len(s) :
                    s[i] \notin WhiteSpace /\ \A j \in (i + 1)..Len(s) : s[j] \in WhiteSpace)

-----------------------------------------------------------------------------
(* text.split(/\n\s*\n/): a match starts at a line feed and, \s* being      *)
(* greedy, ends at the last line feed of the white-space run that follows. *)

\* the last index of the maximal white-space run that starts right after i
RunEnd(text, i) ==
    IF \A k \in (i+1)..Len(text) : text[k] \in WhiteSpace THEN Len(text)
    ELSE (CHOOSE k \in (i+1)..Len(text) :
            text[k] \notin WhiteSpace /\ \A j \in (i+1)..(k-1) : text[j] \in WhiteSpace) - 1

\* the line feeds that can close a match opened at i
ParaCloses(text, i) == {k \in (i+1)..RunEnd(text, i) : text[k] = 10}

ParaMatchAt(text, i) == text[i] = 10 /\ ParaCloses(text, i) # {}

\* the pieces of text from position from on, starts being the positions
\* from there on at which a match begins
RECURSIVE SplitParagraphsAt(_, _, _)
SplitParagraphsAt(text, from, starts) ==
    IF starts = {}
    THEN <<SubSeq(text, from, Len(text))>>
    ELSE <<SubSeq(text, from, SetMin(starts) - 1)>>
            \o SplitParagraphsAt(text,
                    SetMax(ParaCloses(text, SetMin(starts))) + 1,
                    {i \in starts : i > SetMax(ParaCloses(text, SetMin(starts)))})

SplitParagraphsFrom(text, from) ==
    SplitParagraphsAt(text, from, {i \in from..Len(text) : ParaMatchAt(text, i)})

SplitParagraphs(text) == SplitParagraphsFrom(text, 1)

(* paragraph.split(/[。！？.!?]/): every delimiter character separates two  *)
(* pieces and is itself dropped.                                           *)
\* the pieces of p from position from on, ds being the delimiter positions
\* from there on
RECURSIVE SplitSentencesAt(_, _, _)
SplitSentencesAt(p, from, ds) ==
    IF ds = {}
    THEN <<SubSeq(p, from, Len(p))>>
    ELSE <<SubSeq(p, from, SetMin(ds) - 1)>>
            \o SplitSentencesAt(p, SetMin(ds) + 1, ds \ {SetMin(ds)})

SplitSentences(p) ==
    SplitSentencesAt(p, 1, {i \in 1..Len(p) : p[i] \in SentenceDelims})

-----------------------------------------------------------------------------
(* splitTextIntoChunks                                                     *)

\* the inner loop over the sentences of one over-long paragraph; st is
\* [chunks, sentenceChunk]
SentenceStep(sentence, st, maxChunkSize) ==
    IF Len(st.sentenceChunk) + Len(sentence) <= maxChunkSize
    THEN [st EXCEPT !.sentenceChunk = @ \o sentence]
    ELSE [chunks |-> IF st.sentenceChunk # <<>>
                     THEN Append(st.chunks, Trim(st.sentenceChunk))
                     ELSE st.chunks,
          sentenceChunk |-> sentence]

RECURSIVE SentenceLoop(_, _, _)
SentenceLoop(sentences, st, maxChunkSize) ==
    IF sentences = <<>> THEN st
    ELSE SentenceLoop(Tail(sentences),
                      SentenceStep(Head(sentences), st, maxChunkSize),
                      maxChunkSize)

\* the end of the sentence branch: r is what the sentence loop left, and a
\* non-empty sentenceChunk becomes the current chunk
AfterSentences(st, r) ==
    [chunks |-> r.chunks,
     currentChunk |-> IF r.sentenceChunk # <<>> THEN r.sentenceChunk
                                                ELSE st.currentChunk]

\* one turn of the outer loop
ParagraphStep(paragraph, st, maxChunkSize) ==
    IF Len(st.currentChunk) + Len(paragraph) <= maxChunkSize
    THEN [st EXCEPT !.currentChunk =
            @ \o (IF @ # <<>> THEN <<10, 10>> ELSE <<>>) \o paragraph]
    ELSE IF st.currentChunk # <<>>
    THEN [chunks |-> Append(st.chunks, Trim(st.currentChunk)),
          currentChunk |-> paragraph]
    ELSE AfterSentences(st,
            SentenceLoop(SplitSentences(paragraph),
                         [chunks |-> st.chunks, sentenceChunk |-> <<>>],
                         maxChunkSize))

\* the outer loop over the paragraphs; st is [chunks, currentChunk]
RECURSIVE ParagraphLoop(_, _, _)
ParagraphLoop(paragraphs, st, maxChunkSize) ==
    IF paragraphs = <<>> THEN st
    ELSE ParagraphLoop(Tail(paragraphs),
                       ParagraphStep(Head(paragraphs), st, maxChunkSize),
                       maxChunkSize)

\* the end of splitTextIntoChunks: the current chunk is pushed when it is not
\* empty, and the empty chunks are filtered out
LastChunk(r) ==
    SelectSeq(IF r.currentChunk # <<>>
              THEN Append(r.chunks, Trim(r.currentChunk))
              ELSE r.chunks,
              LAMBDA c : Len(c) > 0)

splitTextIntoChunks(text, maxChunkSize) ==
    LastChunk(ParagraphLoop(SplitParagraphs(text),
                            [chunks |-> <<>>, currentChunk |-> <<>>],
                            maxChunkSize))

-----------------------------------------------------------------------------
(* The local deterministic embedding and the cosine similarity.            *)
(*                                                                         *)
(* Numbers are fixed-point: a vector component is in tenths, a similarity  *)
(* score in thousandths (a score of 0.7 is 700).                           *)

\* simpleHash on 32-bit integers, kept as two 16-bit halves <<hi, lo>> so
\* that no intermediate value leaves the 32-bit range. One turn of the loop:
\* hash = ((hash << 5) - hash) + char, that is 31 * hash + char.
HashStep(h, char) ==
    LET l == 31 * h[2] + char
        u == 31 * h[1] + (l \div 65536)
    IN  <<u % 65536, l % 65536>>

\* the loop over str[i..j] from hash value h (halving the range keeps the
\* evaluation shallow on long texts; the characters are taken in order)
RECURSIVE HashLoop(_, _, _, _)
\* the loop over str[i..j], the hash value left by str[..i-1] being known
HashOn(str, i, j, left) ==
    IF left[1] >= 0 THEN HashLoop(str, i, j, left) ELSE left

HashLoop(str, i, j, h) ==
    IF i > j THEN h
    ELSE IF i = j THEN HashStep(h, str[i])
    ELSE HashOn(str, (i + j) \div 2 + 1, j, HashLoop(str, i, (i + j) \div 2, h))

\* the signed value of the 32-bit pattern r
ToInt32(r) ==
    IF r[1] >= 32768 THEN (r[1] - 65536) * 65536 + r[2]
                     ELSE r[1] * 65536 + r[2]

\* the signed 32-bit value that hash & hash leaves
simpleHash(str) == ToInt32(HashLoop(str, 1, Len(str), <<0, 0>>))

\* the dimension of the model's vectors (the code's is 1536)
Dim == 3

\* Math.sin(seed) in tenths, rounded, for the seeds of the model's texts
SinTenths(seed) ==
    CASE seed = -1337908794 -> 2
      [] seed = -1337908793 -> 9
      [] seed = -1337908792 -> 8
      [] seed = -1337908791 -> 0
      [] seed = -1337908790 -> -9
      [] seed = -385122875 -> -10
      [] seed = -385122874 -> -6
      [] seed = -385122873 -> 4
      [] seed = -385122872 -> 10
      [] seed = -385122871 -> 7
      [] seed = 32 -> 6
      [] seed = 33 -> 10
      [] seed = 34 -> 5
      [] seed = 35 -> -4
      [] seed = 36 -> -10
      [] seed = 2112 -> 8
      [] seed = 2113 -> 10
      [] seed = 2114 -> 3
      [] seed = 2115 -> -7
      [] seed = 2116 -> -10
      [] seed = 3105 -> 9
      [] seed = 3106 -> 9
      [] seed = 3107 -> 0
      [] seed = 3108 -> -8
      [] seed = 3109 -> -9
      [] seed = 3169 -> 8
      [] seed = 3170 -> -1
      [] seed = 3171 -> -9
      [] seed = 3172 -> -8
      [] seed = 3173 -> 0
      [] seed = 3904 -> 8
      [] seed = 3905 -> 0
      [] seed = 3906 -> -8
      [] seed = 3907 -> -9
      [] seed = 3908 -> -1
      [] seed = 1080038 -> 7
      [] seed = 1080039 -> -3
      [] seed = 1080040 -> -10
      [] seed = 1080041 -> -8
      [] seed = 1080042 -> 1
      [] seed = 1098750085 -> 10
      [] seed = 1098750086 -> 5
      [] seed = 1098750087 -> -4
      [] seed = 1098750088 -> -10
      [] seed = 1098750089 -> -7
      [] seed = 1160644397 -> -3
      [] seed = 1160644398 -> 7
      [] seed = 1160644399 -> 10
      [] seed = 1160644400 -> 4
      [] seed = 1160644401 -> -5

\* generateMockEmbedding: component i is sin(hash + i) * 2 - 1. The division
\* by the magnitude is left out: the similarity below divides by both
\* magnitudes itself, so it is the same for the scaled vector.
MockVector(hash) == [i \in 1..Dim |-> 2 * SinTenths(hash + (i - 1)) - 10]

generateMockEmbedding(text) == MockVector(simpleHash(text))

RECURSIVE SumTo(_, _)
SumTo(f, n) == IF n = 0 THEN 0 ELSE f[n] + SumTo(f, n - 1)

\* the integer square root, by bisection on lo..hi
RECURSIVE SqrtIn(_, _, _)
SqrtIn(n, lo, hi) ==
    IF lo >= hi THEN lo
    ELSE LET mid == (lo + hi + 1) \div 2
         IN  IF mid * mid <= n THEN SqrtIn(n, mid, hi) ELSE SqrtIn(n, lo, mid - 1)

ISqrt(n) == SqrtIn(n, 0, 4000)

\* a variant of the similarity that scores a vector of magnitude 0 as
\* parallel to every vector
cosineZeroAsParallel(vectorA, vectorB) ==
    IF Len(vectorA) # Len(vectorB) THEN 0
    ELSE LET n == Len(vectorA)
             dotProduct == SumTo([i \in 1..n |-> vectorA[i] * vectorB[i]], n)
             magnitudeA == SumTo([i \in 1..n |-> vectorA[i] * vectorA[i]], n)
             magnitudeB == SumTo([i \in 1..n |-> vectorB[i] * vectorB[i]], n)
         IN  IF magnitudeA = 0 \/ magnitudeB = 0 THEN 1000
             ELSE LET d == ISqrt(magnitudeA * magnitudeB)
                  IN  IF dotProduct >= 0 THEN (1000 * dotProduct) \div d
                      ELSE -((1000 * (-dotProduct)) \div d)

\* calculateCosineSimilarity, in thousandths
calculateCosineSimilarity(vectorA, vectorB) ==
    IF Len(vectorA) # Len(vectorB) THEN 0
    ELSE LET n == Len(vectorA)
             dotProduct == SumTo([i \in 1..n |-> vectorA[i] * vectorB[i]], n)
             magnitudeA == SumTo([i \in 1..n |-> vectorA[i] * vectorA[i]], n)
             magnitudeB == SumTo([i \in 1..n |-> vectorB[i] * vectorB[i]], n)
         IN  IF magnitudeA = 0 \/ magnitudeB = 0 THEN 0
             ELSE LET d == ISqrt(magnitudeA * magnitudeB)
                  IN  IF dotProduct >= 0 THEN (1000 * dotProduct) \div d
                      ELSE -((1000 * (-dotProduct)) \div d)

-----------------------------------------------------------------------------
(* Objects. A JavaScript object is a function from its keys to values; a   *)
(* key that is not set is not in the domain.                               *)

\* {...base, ...over}
Spread(base, over) ==
    [k \in (DOMAIN base) \cup (DOMAIN over) |->
        IF k \in DOMAIN over THEN over[k] ELSE base[k]]

\* obj[key] || dflt for a string-valued key
OrString(obj, key, dflt) ==
    IF key \in DOMAIN obj /\ obj[key] # "" THEN obj[key] ELSE dflt

\* a destructuring default: obj.key, or dflt when the key is not set
OrDefault(obj, key, dflt) == IF key \in DOMAIN obj THEN obj[key] ELSE dflt

Min2(a, b) == IF a <= b THEN a ELSE b

Max2(a, b) == IF a >= b THEN a ELSE b

\* Array.prototype.slice(0, end): a negative end counts from the back
Slice0(seq, end) ==
    LET n == Len(seq)
        e == IF end < 0 THEN Max2(n + end, 0) ELSE Min2(end, n)
    IN  SubSeq(seq, 1, e)

\* a variant that keeps the first k elements
SliceFirst(seq, k) == SubSeq(seq, 1, Min2(k, Len(seq)))

\* Array.prototype.slice(-k) for k > 0: the last k elements
SliceLast(seq, k) == SubSeq(seq, Max2(Len(seq) - k, 0) + 1, Len(seq))

-----------------------------------------------------------------------------
(* enhanceBridgeContent                                                    *)

bridgeKeywords ==
    << <<25215, 36733, 21147>>,
       <<23433, 20840, 31995, 25968>>,
       <<33655, 36733>>,
       <<24367, 30697>>,
       <<21098, 21147>>,
       <<25376, 24230>>,
       <<28151, 20957, 22303>>,
       <<38050, 31563>>,
       <<39044, 24212, 21147>>,
       <<24464, 21464>>,
       <<25910, 32553>>,
       <<30130, 21171>>,
       <<26725, 22697>>,
       <<26725, 21488>>,
       <<26725, 38754>>,
       <<20027, 26753>>,
       <<26725, 36328>>,
       <<25903, 24231>>,
       <<20280, 32553, 32541>>,
       <<25490, 27700>>,
       <<25252, 26639>>,
       <<25239, 38663>>,
       <<39118, 33655, 36733>> >>

\* "[bridge term:" and "]" around a keyword, as written in the source
TermOpen == <<91, 26725, 26753, 26415, 35821, 58>>

\* "[document type: "
TypeOpen == <<91, 25991, 26723, 31867, 22411, 58, 32>>

\* "[contains terms: "
TermsOpen == <<91, 21253, 21547, 26415, 35821, 58, 32>>

IsAt(text, i, kw) ==
    /\ i + Len(kw) - 1 <= Len(text)
    /\ text[i] = kw[1]
    /\ SubSeq(text, i, i + Len(kw) - 1) = kw

\* text.replace(new RegExp(`(${kw})`, 'g'), `[...:$1]`) from position from
\* on, hits being the positions from there on where kw stands: the matches
\* are taken left to right and do not overlap
RECURSIVE ReplaceKeywordAt(_, _, _, _)
ReplaceKeywordAt(text, from, kw, hits) ==
    IF hits = {} THEN SubSeq(text, from, Len(text))
    ELSE SubSeq(text, from, SetMin(hits) - 1) \o TermOpen \o kw \o <<93>>
            \o ReplaceKeywordAt(text, SetMin(hits) + Len(kw), kw,
                                {i \in hits : i >= SetMin(hits) + Len(kw)})

ReplaceKeyword(text, kw) ==
    ReplaceKeywordAt(text, 1, kw, {i \in 1..Len(text) : IsAt(text, i, kw)})

\* the first characters of the keywords
KeywordHeads == {bridgeKeywords[k][1] : k \in 1..Len(bridgeKeywords)}

\* the loop over the keywords from the k-th on, each replacement working on
\* the last one's result (a text that holds no keyword's first character is
\* left as it is by every replacement)
RECURSIVE TagKeywords(_, _)
TagKeywords(text, k) ==
    IF k > Len(bridgeKeywords) THEN text
    ELSE IF \A i \in 1..Len(text) : text[i] \notin KeywordHeads THEN text
    ELSE TagKeywords(ReplaceKeyword(text, bridgeKeywords[k]), k + 1)

\* Array.prototype.join(', ')
RECURSIVE JoinTerms(_)
JoinTerms(terms) ==
    IF terms = <<>> THEN <<>>
    ELSE IF Len(terms) = 1 THEN terms[1]
    ELSE terms[1] \o <<44, 32>> \o JoinTerms(Tail(terms))

enhanceBridgeContent(content, metadata) ==
    LET tagged == TagKeywords(content, 1)
        typed == IF "contentType" \in DOMAIN metadata /\ metadata.contentType # <<>>
                 THEN TypeOpen \o metadata.contentType \o <<93, 10>> \o tagged
                 ELSE tagged
    IN  IF "bridgeTermsFound" \in DOMAIN metadata /\ Len(metadata.bridgeTermsFound) > 0
        THEN TermsOpen \o JoinTerms(metadata.bridgeTermsFound) \o <<93, 10>> \o typed
        ELSE typed

-----------------------------------------------------------------------------
(* The local vector store.                                                 *)

\* the chunk size storeDocument and storeDocumentLocal pass to the chunker
StoreChunkSize == 1000

\* the record of chunk i (counted from 0) of a document; the id, the string
\* `${fileId}_chunk_${i}` of the source, is the pair <<fileId, i>>. values.by
\* is history: the strategy that produced the vector. The time stamps
\* (createdAt, addedToKB) are left out.
VectorRecordOf(fileId, fileName, fileType, chunk, i, values, metadata) ==
    [id |-> <<fileId, i>>,
     values |-> values,
     metadata |-> Spread([content |-> chunk, fileId |-> fileId,
                          fileName |-> fileName, fileType |-> fileType,
                          chunkIndex |-> i],
                         metadata)]

\* the loop of storeDocumentLocal over the chunks: every chunk is embedded by
\* generateMockEmbedding and pushed onto the store
RECURSIVE LocalStoreLoop(_, _, _, _, _, _, _)
LocalStoreLoop(store, chunks, i, fileId, fileName, fileType, metadata) ==
    IF i >= Len(chunks) THEN store
    ELSE LET chunk == chunks[i + 1]
             embedding == [by |-> "mock", vec |-> generateMockEmbedding(chunk)]
             vectorRecord == VectorRecordOf(fileId, fileName, fileType, chunk, i,
                                            embedding, metadata)
         IN  LocalStoreLoop(Append(store, vectorRecord), chunks, i + 1,
                            fileId, fileName, fileType, metadata)

\* storeDocumentLocal once the chunks are made; successCount is their number
StoreChunksLocal(store, chunks, fileId, fileName, fileType, metadata) ==
    [store |-> LocalStoreLoop(store, chunks, 0, fileId, fileName, fileType,
                              metadata),
     res |-> IF Len(chunks) = 0
             THEN [success |-> FALSE, error |-> "no chunk stored"]
             ELSE [success |-> TRUE, vectorCount |-> Len(chunks)]]

\* storeDocumentLocal: the new store and the returned object
storeDocumentLocal(store, fileId, fileName, fileType, content, metadata) ==
    StoreChunksLocal(store, splitTextIntoChunks(content, StoreChunkSize),
                     fileId, fileName, fileType, metadata)

\* deleteDocumentLocal
\* a variant that empties the store
deleteEveryDocument(store, fileId) == [store |-> <<>>, res |-> [success |-> TRUE]]

\* a variant that reports a failure when the document has no record
deleteStoredDocument(store, fileId) ==
    IF \A k \in 1..Len(store) : store[k].metadata.fileId # fileId
    THEN [store |-> store,
          res |-> [success |-> FALSE, error |-> "no record of the document"]]
    ELSE [store |-> SelectSeq(store, LAMBDA v : v.metadata.fileId # fileId),
          res |-> [success |-> TRUE]]

deleteDocumentLocal(store, fileId) ==
    [store |-> SelectSeq(store, LAMBDA v : v.metadata.fileId # fileId),
     res |-> [success |-> TRUE]]

\* one entry of the filter object: the value is an array (items) or a scalar
\* (the one element of items)
FilterEntryHolds(entry, metadata, key) ==
    IF entry.isArray
    THEN key \in DOMAIN metadata /\ \E k \in 1..Len(entry.items) :
                                        entry.items[k] = metadata[key]
    ELSE key \in DOMAIN metadata /\ metadata[key] = entry.items[1]

\* the filter callback of queryDocumentsLocal
MatchesFilter(filter, metadata) ==
    \A key \in DOMAIN filter : FilterEntryHolds(filter[key], metadata, key)

\* Array.prototype.sort((a, b) => b.score - a.score): the sort is stable, so
\* it is the insertion of each element, in order, behind the elements whose
\* score is not lower
\* a variant that puts an element ahead of its equals: the sort it makes is
\* descending but not stable
InsertAheadOfEquals(sorted, x) ==
    LET ahead == {k \in 1..Len(sorted) : sorted[k].score > x.score}
        n == IF ahead = {} THEN 0 ELSE SetMax(ahead)
    IN  SubSeq(sorted, 1, n) \o <<x>> \o SubSeq(sorted, n + 1, Len(sorted))

InsertByScore(sorted, x) ==
    LET ahead == {k \in 1..Len(sorted) : sorted[k].score >= x.score}
        n == IF ahead = {} THEN 0 ELSE SetMax(ahead)
    IN  SubSeq(sorted, 1, n) \o <<x>> \o SubSeq(sorted, n + 1, Len(sorted))

RECURSIVE SortByScoreFrom(_, _, _)
SortByScoreFrom(results, k, sorted) ==
    IF k > Len(results) THEN sorted
    ELSE SortByScoreFrom(results, k + 1, InsertByScore(sorted, results[k]))

SortByScore(results) == SortByScoreFrom(results, 1, <<>>)

\* the scoring map of queryDocumentsLocal; idx is the record's position in
\* the store (the callback's index argument), kept to tell equal records apart
ScoreAll(store, queryVector) ==
    [k \in 1..Len(store) |->
        [id |-> store[k].id,
         score |-> calculateCosineSimilarity(queryVector, store[k].values.vec),
         metadata |-> store[k].metadata,
         content |-> IF "content" \in DOMAIN store[k].metadata
                     THEN store[k].metadata.content ELSE <<>>,
         idx |-> k]]

\* the results that pass the filter, [given |-> BOOLEAN, entries |-> object]:
\* a filter that is not given lets every result pass
Filtered(results, filter) ==
    IF filter.given
    THEN SelectSeq(results, LAMBDA r : MatchesFilter(filter.entries, r.metadata))
    ELSE results

\* a variant that cuts the sorted results to topK before it filters them
queryCutThenFilter(store, queryText, topK, filter) ==
    IF Len(store) = 0 THEN [success |-> TRUE, matches |-> <<>>]
    ELSE [success |-> TRUE,
          matches |-> Filtered(Slice0(SortByScore(
                                ScoreAll(store, generateMockEmbedding(queryText))),
                                topK),
                               filter)]

\* queryDocumentsLocal
queryDocumentsLocal(store, queryText, topK, filter) ==
    IF Len(store) = 0 THEN [success |-> TRUE, matches |-> <<>>]
    ELSE [success |-> TRUE,
          matches |-> Slice0(SortByScore(
                        Filtered(ScoreAll(store, generateMockEmbedding(queryText)),
                                 filter)),
                        topK)]

-----------------------------------------------------------------------------
(* The remote services. A call's outcome (net) is the environment's choice. *)

PineconeConfigured(e) == e.PINECONE_API_KEY /\ e.PINECONE_INDEX_URL

\* the vector the remote embedding model answers with: some vector of the
\* index's dimension that depends on the text only
OpenAIVector(text) == [i \in 1..Dim |-> IF i = 1 + (Len(text) % Dim) THEN 10 ELSE 0]

\* generateEmbedding
generateEmbedding(e, text, net) ==
    IF ~e.OPENAI_API_KEY
    THEN [success |-> FALSE, error |-> "OpenAI API key not configured"]
    ELSE IF net = "ok"
    THEN [success |-> TRUE, embedding |-> [by |-> "openai", vec |-> OpenAIVector(text)]]
    ELSE [success |-> FALSE, error |-> "OpenAI embedding API error"]

\* the remote index's upsert of one record: a record with the same id is
\* replaced, a new one is added
UpsertOne(index, v) ==
    IF \E k \in 1..Len(index) : index[k].id = v.id
    THEN [k \in 1..Len(index) |-> IF index[k].id = v.id THEN v ELSE index[k]]
    ELSE Append(index, v)

RECURSIVE UpsertAll(_, _)
UpsertAll(index, vectors) ==
    IF vectors = <<>> THEN index
    ELSE UpsertAll(UpsertOne(index, Head(vectors)), Tail(vectors))

\* uploadVectors: the new index and the returned object
uploadVectors(index, vectors, net) ==
    IF net = "ok"
    THEN [index |-> UpsertAll(index, vectors), res |-> [success |-> TRUE]]
    ELSE [index |-> index,
          res |-> [success |-> FALSE, error |-> "Pinecone upload error"]]

\* one turn of the loop of storeDocument: the chunk's record is pushed when
\* its embedding succeeded
RecordIfEmbedded(vectorRecords, embeddingResult, fileId, fileName, fileType, chunk, i, metadata) ==
    IF ~embeddingResult.success THEN vectorRecords
    ELSE Append(vectorRecords,
                VectorRecordOf(fileId, fileName, fileType, chunk, i,
                               embeddingResult.embedding, metadata))

\* the loop of storeDocument over the chunks: a chunk whose embedding fails is
\* skipped; embNets[i + 1] is the outcome of the embedding call of chunk i
RECURSIVE RemoteRecordLoop(_, _, _, _, _, _, _, _, _)
RemoteRecordLoop(e, vectorRecords, chunks, i, fileId, fileName, fileType, metadata, embNets) ==
    IF i >= Len(chunks) THEN vectorRecords
    ELSE RemoteRecordLoop(e,
            RecordIfEmbedded(vectorRecords,
                             generateEmbedding(e, chunks[i + 1], embNets[i + 1]),
                             fileId, fileName, fileType, chunks[i + 1], i, metadata),
            chunks, i + 1, fileId, fileName, fileType, metadata, embNets)

\* the end of storeDocument: the object returned after the upload
AfterUpload(store, vectorRecords, uploadResult) ==
    [store |-> store, index |-> uploadResult.index,
     res |-> Spread([success |-> uploadResult.res.success,
                     vectorCount |-> Len(vectorRecords)],
                    IF uploadResult.res.success THEN <<>>
                    ELSE [error |-> uploadResult.res.error])]

\* storeDocument once the vector records are made
UploadRecords(store, index, vectorRecords, upNet) ==
    IF Len(vectorRecords) = 0
    THEN [store |-> store, index |-> index,
          res |-> [success |-> FALSE, error |-> "no vector record made"]]
    ELSE AfterUpload(store, vectorRecords,
                     uploadVectors(index, vectorRecords, upNet))

\* storeDocument once the chunks are made
StoreChunks(e, store, index, chunks, fileId, fileName, fileType, metadata, embNets, upNet) ==
    UploadRecords(store, index,
                  RemoteRecordLoop(e, <<>>, chunks, 0, fileId, fileName, fileType,
                                   metadata, embNets),
                  upNet)

\* a result of the local store as a result on both stores
WithIndex(r, index) == [store |-> r.store, index |-> index, res |-> r.res]

\* storeDocument: the new local store, the new remote index, the returned object
storeDocument(e, store, index, fileId, fileName, fileType, content, metadata, embNets, upNet) ==
    IF ~PineconeConfigured(e)
    THEN WithIndex(storeDocumentLocal(store, fileId, fileName, fileType, content,
                                      metadata),
                   index)
    ELSE StoreChunks(e, store, index, splitTextIntoChunks(content, StoreChunkSize),
                     fileId, fileName, fileType, metadata, embNets, upNet)

\* queryDocuments. The remote index answers a query with its topK records by
\* cosine similarity to the query vector, best first. The returned object
\* carries how the query was served (trace): the backend, the strategy of the
\* query vector, the strategies of the vectors it was scored against, and the
\* records that were candidates.
queryDocuments(e, store, index, queryText, topK, filter, net) ==
    IF ~PineconeConfigured(e)
    THEN Spread(queryDocumentsLocal(store, queryText, topK, filter),
                [trace |-> [backend |-> "local", queryBy |-> "mock",
                            scoredBy |-> {store[k].values.by : k \in 1..Len(store)}]])
    ELSE IF net = "ok"
    THEN [success |-> TRUE,
          matches |-> Slice0(SortByScore(
                        Filtered(ScoreAll(index, generateMockEmbedding(queryText)),
                                 filter)),
                        topK),
          trace |-> [backend |-> "remote", queryBy |-> "mock",
                     scoredBy |-> {index[k].values.by : k \in 1..Len(index)}]]
    ELSE [success |-> FALSE, error |-> "Pinecone query error",
          trace |-> [backend |-> "remote", queryBy |-> "mock", scoredBy |-> {}]]

\* deleteDocument: the new local store, the new remote index, the returned object
deleteDocument(e, store, index, fileId, net) ==
    IF ~PineconeConfigured(e)
    THEN WithIndex(deleteDocumentLocal(store, fileId), index)
    ELSE IF net = "ok"
    THEN [store |-> store,
          index |-> SelectSeq(index, LAMBDA v : v.metadata.fileId # fileId),
          res |-> [success |-> TRUE]]
    ELSE [store |-> store, index |-> index,
          res |-> [success |-> FALSE, error |-> "Pinecone delete error"]]

-----------------------------------------------------------------------------
(* AIService                                                               *)

\* per provider id: the binding that holds its key, and the model name it reports
Vendors ==
    [gpt |-> [key |-> "OPENAI_API_KEY", name |-> "GPT-4o Mini"],
     claude |-> [key |-> "ANTHROPIC_API_KEY", name |-> "Claude 3.5 Sonnet"],
     gemini |-> [key |-> "GEMINI_API_KEY", name |-> "Gemini 2.5 Flash"],
     qwen |-> [key |-> "QWEN_API_KEY", name |-> "Qwen 2.5-72B"]]

\* per provider id: the host its one fetch call goes to
Endpoints ==
    [gpt |-> "api.openai.com", claude |-> "api.anthropic.com",
     gemini |-> "generativelanguage.googleapis.com",
     qwen |-> "dashscope.aliyuncs.com"]

\* a variant that turns to OpenAI when the selected provider has no key
chatWithVendorOrOpenAI(e, model, messages, net) ==
    IF ~e[Vendors[model].key]
    THEN [threw |-> net # "ok", message |-> <<"gpt", "API error">>,
          value |-> [success |-> TRUE, response |-> <<"answer of", "gpt">>,
                     model |-> Vendors["gpt"].name],
          fetched |-> <<Endpoints["gpt"]>>]
    ELSE IF net = "ok"
    THEN [threw |-> FALSE,
          value |-> [success |-> TRUE, response |-> <<"answer of", model>>,
                     model |-> Vendors[model].name],
          fetched |-> <<Endpoints[model]>>]
    ELSE [threw |-> TRUE, message |-> <<model, "API error">>,
          fetched |-> <<Endpoints[model]>>]

\* chatWithOpenAI, chatWithClaude, chatWithGemini, chatWithQwen: the value
\* returned, or the error thrown, and the hosts of the fetch calls made
\* (fetched; the key is looked at before the one fetch call)
chatWithVendor(e, model, messages, net) ==
    IF ~e[Vendors[model].key]
    THEN [threw |-> TRUE, message |-> <<model, "API key not configured">>,
          fetched |-> <<>>]
    ELSE IF net = "ok"
    THEN [threw |-> FALSE,
          value |-> [success |-> TRUE, response |-> <<"answer of", model>>,
                     model |-> Vendors[model].name],
          fetched |-> <<Endpoints[model]>>]
    ELSE [threw |-> TRUE, message |-> <<model, "API error">>,
          fetched |-> <<Endpoints[model]>>]

\* chat: the switch on the provider id inside a try whose catch turns every
\* error into a failed response
chat(e, messages, model, net) ==
    LET r == IF model \in DOMAIN Vendors
             THEN chatWithVendor(e, model, messages, net)
             ELSE [threw |-> TRUE, message |-> <<model, "unsupported model">>]
    IN  IF r.threw
        THEN [success |-> FALSE, error |-> r.message, model |-> model]
        ELSE r.value

\* the hosts of the fetch calls one call of chat makes: those of the case of
\* the switch it takes, none in the default case
chatFetched(e, messages, model, net) ==
    IF model \in DOMAIN Vendors
    THEN chatWithVendor(e, model, messages, net).fetched
    ELSE <<>>

\* enhanceBridgeQuery: the question inside a fixed analysis template
enhanceBridgeQuery(userQuery) == [kind |-> "enhanced", question |-> userQuery]

-----------------------------------------------------------------------------
(* RAGService                                                              *)

\* Math.round(score * 100), the score being in thousandths
RoundPercent(score) == (score + 5) \div 10

\* buildContextPrompt: the prompt is the fixed template with the question and
\* one numbered entry per source, naming its file, its relevance in percent
\* and its content
buildContextPrompt(question, sources) ==
    [kind |-> "context",
     question |-> question,
     docs |-> [k \in 1..Len(sources) |->
                 [n |-> k,
                  fileName |-> IF "fileName" \in DOMAIN sources[k].metadata
                               THEN sources[k].metadata.fileName ELSE "undefined",
                  percent |-> RoundPercent(sources[k].score),
                  content |-> sources[k].content]]]

\* the default of options.maxSources
DefaultMaxSources == 5

\* the default of options.minRelevanceScore (0.7)
DefaultMinRelevanceScore == 700

\* the number of history messages kept (slice(-6))
HistoryKept == 6

\* the length of a source's excerpt
ExcerptLength == 300

\* fallbackToDirectAI: the returned object and the chat calls made
fallbackToDirectAI(e, question, model, history, net) ==
    LET enhancedQuestion == enhanceBridgeQuery(question)
        messages == SliceLast(history, HistoryKept)
                        \o <<[role |-> "user", content |-> enhancedQuestion]>>
        aiResponse == chat(e, messages, model, net)
    IN  [res |-> IF ~aiResponse.success
                 THEN [success |-> FALSE,
                       error |-> [prefix |-> "", cause |-> aiResponse.error]]
                 ELSE [success |-> TRUE, answer |-> aiResponse.response,
                       sources |-> <<>>, model |-> aiResponse.model],
         chatCalls |-> <<[model |-> model, messages |-> messages,
                          response |-> aiResponse]>>,
         path |-> "fallback"]

\* a variant of step 2 that keeps every match
EveryMatch(matches, minRelevanceScore) == matches

\* step 2 of askQuestion: the matches whose score reaches the threshold
RelevantSources(matches, minRelevanceScore) ==
    SelectSeq(matches, LAMBDA match : match.score >= minRelevanceScore)

\* a variant of step 6 that marks every excerpt with the ellipsis
sourcesAlwaysMarked(relevantSources) ==
    [k \in 1..Len(relevantSources) |->
        LET match == relevantSources[k]
        IN  [content |-> SubSeq(match.content, 1, Min2(ExcerptLength, Len(match.content)))
                            \o <<46, 46, 46>>,
             fileName |-> OrString(match.metadata, "fileName", "unknown file"),
             fileType |-> OrString(match.metadata, "fileType", "unknown"),
             relevanceScore |-> RoundPercent(match.score)]]

\* step 6 of askQuestion: the source entries of the result
SourcesOf(relevantSources) ==
    [k \in 1..Len(relevantSources) |->
        LET match == relevantSources[k]
        IN  [content |-> SubSeq(match.content, 1, Min2(ExcerptLength, Len(match.content)))
                            \o (IF Len(match.content) > ExcerptLength
                                THEN <<46, 46, 46>> ELSE <<>>),
             fileName |-> OrString(match.metadata, "fileName", "unknown file"),
             fileType |-> OrString(match.metadata, "fileType", "unknown"),
             relevanceScore |-> RoundPercent(match.score)]]

\* a variant of steps 3 to 6 that turns to the direct answer when the chat
\* call on the context prompt fails
groundedThenDirect(e, question, model, history, relevantSources, net) ==
    LET contextPrompt == buildContextPrompt(question, relevantSources)
        messages == SliceLast(history, HistoryKept)
                        \o <<[role |-> "user", content |-> contextPrompt]>>
        aiResponse == chat(e, messages, model, net)
        direct == fallbackToDirectAI(e, question, model, history, net)
    IN  [res |-> IF ~aiResponse.success
                 THEN direct.res
                 ELSE [success |-> TRUE, answer |-> aiResponse.response,
                       sources |-> SourcesOf(relevantSources),
                       model |-> aiResponse.model],
         chatCalls |-> <<[model |-> model, messages |-> messages,
                          response |-> aiResponse]>>
                       \o (IF ~aiResponse.success THEN direct.chatCalls ELSE <<>>),
         path |-> "grounded"]

\* steps 3 to 6 of askQuestion, taken when some source is relevant
groundedAnswer(e, question, model, history, relevantSources, net) ==
    LET contextPrompt == buildContextPrompt(question, relevantSources)
        messages == SliceLast(history, HistoryKept)
                        \o <<[role |-> "user", content |-> contextPrompt]>>
        aiResponse == chat(e, messages, model, net)
    IN  [res |-> IF ~aiResponse.success
                 THEN [success |-> FALSE,
                       error |-> [prefix |-> "AI answer generation failed: ",
                                  cause |-> aiResponse.error]]
                 ELSE [success |-> TRUE, answer |-> aiResponse.response,
                       sources |-> SourcesOf(relevantSources),
                       model |-> aiResponse.model],
         chatCalls |-> <<[model |-> model, messages |-> messages,
                          response |-> aiResponse]>>,
         path |-> "grounded"]

\* a variant of the branch that builds the context prompt even from no source
alwaysGrounded(e, question, model, history, relevantSources, net) ==
    groundedAnswer(e, question, model, history, relevantSources, net)

\* a variant that asks the direct question and the grounded one
answerFromBoth(e, question, model, history, relevantSources, net) ==
    IF Len(relevantSources) = 0
    THEN fallbackToDirectAI(e, question, model, history, net)
    ELSE [res |-> groundedAnswer(e, question, model, history, relevantSources, net).res,
          chatCalls |-> fallbackToDirectAI(e, question, model, history, net).chatCalls
                        \o groundedAnswer(e, question, model, history,
                                          relevantSources, net).chatCalls,
          path |-> "grounded"]

\* the branch of askQuestion on the relevant sources
answerFrom(e, question, model, history, relevantSources, net) ==
    IF Len(relevantSources) = 0
    THEN fallbackToDirectAI(e, question, model, history, net)
    ELSE groundedAnswer(e, question, model, history, relevantSources, net)

\* a variant of the branch that hands a failed retrieval on to the caller
retrievalFailureReturned(e, question, model, history, retrievalResult, minRelevanceScore, net) ==
    IF ~retrievalResult.success
    THEN [res |-> [success |-> FALSE,
                   error |-> [prefix |-> "", cause |-> retrievalResult.error]],
          chatCalls |-> <<>>, path |-> "failed"]
    ELSE answerFrom(e, question, model, history,
                    RelevantSources(retrievalResult.matches, minRelevanceScore),
                    net)

\* the branch of askQuestion after the retrieval step
afterRetrieval(e, question, model, history, retrievalResult, minRelevanceScore, net) ==
    IF ~retrievalResult.success
    THEN fallbackToDirectAI(e, question, model, history, net)
    ELSE answerFrom(e, question, model, history,
                    RelevantSources(retrievalResult.matches, minRelevanceScore),
                    net)

\* the answer r with the retrieval result it was made from
WithRetrieval(r, retrievalResult, minRelevanceScore) ==
    [res |-> r.res, chatCalls |-> r.chatCalls, path |-> r.path,
     retrieval |-> retrievalResult, minRelevanceScore |-> minRelevanceScore]

\* askQuestion from the retrieval result on
AskAfter(e, question, model, conversationHistory, retrievalResult, minRelevanceScore, chatNet) ==
    WithRetrieval(afterRetrieval(e, question, model, conversationHistory,
                                 retrievalResult, minRelevanceScore, chatNet),
                  retrievalResult, minRelevanceScore)

\* askQuestion: the returned object, with the retrieval result and the chat
\* calls made on the way (trace)
askQuestion(e, store, index, question, model, options, retrNet, chatNet) ==
    AskAfter(e, question, model,
             OrDefault(options, "conversationHistory", <<>>),
             queryDocuments(e, store, index, question,
                            OrDefault(options, "maxSources", DefaultMaxSources),
                            [given |-> FALSE, entries |-> <<>>], retrNet),
             OrDefault(options, "minRelevanceScore", DefaultMinRelevanceScore),
             chatNet)

\* addToKnowledgeBase: the content is enhanced and always handed to
\* storeDocumentLocal, whatever the environment configures
addToKnowledgeBase(store, fileId, fileName, fileType, content, metadata) ==
    LET enhancedContent == enhanceBridgeContent(content, metadata)
    IN  storeDocumentLocal(store, fileId, fileName, fileType, enhancedContent,
                           Spread(metadata, [enhancedForBridge |-> TRUE]))

\* removeFromKnowledgeBase
removeFromKnowledgeBase(e, store, index, fileId, net) ==
    deleteDocument(e, store, index, fileId, net)

\* getLocalStats: every record is counted in the one namespace ''
getLocalStats(store) ==
    [totalVectorCount |-> Len(store),
     dimension |-> IF Len(store) > 0 THEN Len(store[1].values.vec) ELSE Dim,
     namespaces |-> [namespace \in {""} |-> [vectorCount |-> Len(store)]],
     localMode |-> TRUE,
     fileCount |-> Cardinality({store[k].metadata.fileId : k \in 1..Len(store)})]

\* getIndexStats: the local statistics, the answer of the vector database
\* (its records are upserted into the default namespace ''), or null
getIndexStats(e, store, index, net) ==
    IF ~PineconeConfigured(e) THEN [found |-> TRUE, stats |-> getLocalStats(store)]
    ELSE IF net = "ok"
    THEN [found |-> TRUE,
          stats |-> [totalVectorCount |-> Len(index),
                     dimension |-> Dim,
                     namespaces |-> [namespace \in {""} |->
                                        [vectorCount |-> Len(index)]]]]
    ELSE [found |-> FALSE]

\* the category a namespace name counts for: the name '' includes none of
\* 'pdf', 'documents', 'ifc', 'models', 'dxf', 'drawings'
CategoryOf(namespace) == IF namespace = "" THEN "none" ELSE namespace

\* the sum of the vector counts of the namespaces whose category is in cats
RECURSIVE CountIn(_, _, _)
CountIn(namespaces, names, cats) ==
    IF names = {} THEN 0
    ELSE LET namespace == CHOOSE n \in names : TRUE
         IN  (IF CategoryOf(namespace) \in cats
              THEN namespaces[namespace].vectorCount ELSE 0)
             + CountIn(namespaces, names \ {namespace}, cats)

\* getKnowledgeBaseStatus from the statistics on
StatusOf(r) ==
    IF ~r.found THEN [found |-> FALSE]
    ELSE [found |-> TRUE,
          vectorCount |-> r.stats.totalVectorCount,
          documentCount |-> CountIn(r.stats.namespaces, DOMAIN r.stats.namespaces,
                                    {"none", "documents", "models", "drawings"}),
          categories |-> [c \in {"documents", "models", "drawings"} |->
                            CountIn(r.stats.namespaces, DOMAIN r.stats.namespaces,
                                    {c})]]

\* getKnowledgeBaseStatus: the status object, or null (found is FALSE)
getKnowledgeBaseStatus(e, store, index, net) ==
    StatusOf(getIndexStats(e, store, index, net))

\* the default of options.maxResults
DefaultMaxResults == 10

\* the default of options.minScore (0.6)
DefaultMinScore == 600

\* the filter object searchKnowledgeBase builds
SearchFilter(options) ==
    IF "fileTypes" \in DOMAIN options /\ Len(options.fileTypes) > 0
    THEN [fileType |-> [isArray |-> TRUE, items |-> options.fileTypes]]
    ELSE <<>>

\* the end of searchKnowledgeBase: the matches below minScore are dropped
\* from the local query's result (kept as retrieval, for the trace)
FilterByScore(result, minScore) ==
    [res |-> [success |-> result.success,
              matches |-> SelectSeq(result.matches,
                                    LAMBDA match : match.score >= minScore)],
     retrieval |-> result]

\* searchKnowledgeBase: the returned object, with the local query's own
\* result (trace)
searchKnowledgeBase(store, query, options) ==
    FilterByScore(queryDocumentsLocal(store, query,
                        OrDefault(options, "maxResults", DefaultMaxResults),
                        [given |-> TRUE, entries |-> SearchFilter(options)]),
                  OrDefault(options, "minScore", DefaultMinScore))

-----------------------------------------------------------------------------
(* The chunker as a pure function: its inputs are drawn from bounded sets. *)

\* the longest text given to the chunker
MaxTextLen == 5

\* the largest maxChunkSize given to the chunker
MaxChunkArg == 4

\* letters, a full stop, a line feed and a space
ChunkAlphabet == {97, 98, 46, 10, 32}

ChunkTexts == UNION {[1..n -> ChunkAlphabet] : n \in 0..MaxTextLen}

\* an environment with no binding set
NoBindings ==
    [PINECONE_API_KEY |-> FALSE, PINECONE_INDEX_URL |-> FALSE,
     OPENAI_API_KEY |-> FALSE, ANTHROPIC_API_KEY |-> FALSE,
     GEMINI_API_KEY |-> FALSE, QWEN_API_KEY |-> FALSE]

\* the file ids of the model's documents
FileIds == {"f1", "f2"}

\* the state of the knowledge base while only the chunker is exercised
KbIdle ==
    /\ env = NoBindings
    /\ globalVectorStore = <<>>
    /\ pineconeIndex = <<>>
    /\ docState = [f \in FileIds |-> "never"]
    /\ last = [op |-> "none"]
    /\ inflight = <<>>
    /\ fnCall = [fn |-> "none"]

ChunkInit ==
    /\ chunkText \in ChunkTexts
    /\ chunkMax \in 1..MaxChunkArg
    /\ chunkOut = <<>>
    /\ chunkCalled = FALSE
    /\ KbIdle

SplitCall ==
    /\ ~chunkCalled
    /\ chunkOut' = splitTextIntoChunks(chunkText, chunkMax)
    /\ chunkCalled' = TRUE
    /\ UNCHANGED <<chunkText, chunkMax>>
    /\ UNCHANGED kbVars
    /\ UNCHANGED <<inflight, fnCall>>

SpecChunk == ChunkInit /\ [][SplitCall]_vars

\* the text without its white space
StripWhiteSpace(s) == SelectSeq(s, LAMBDA c : c \notin WhiteSpace)

\* at most one sentence: no paragraph break, and no sentence delimiter
\* except possibly as the last character
OneSentence(c) ==
    /\ \A i \in 1..Len(c) : ~ParaMatchAt(c, i)
    /\ \A i \in 1..(Len(c) - 1) : c[i] \notin SentenceDelims

\* C3 (chunk bound): every chunk returned by splitTextIntoChunks is at most
\* maxChunkSize long, unless it is a single sentence longer than that.
C3_ChunkBound ==
    chunkCalled =>
        \A k \in 1..Len(chunkOut) :
            Len(chunkOut[k]) <= chunkMax \/ OneSentence(chunkOut[k])

\* C4 (chunk reconstruction): the chunks concatenated in order hold the
\* input's non-white-space characters, all of them and in the same order.
C4_ChunkReconstruction ==
    chunkCalled =>
        StripWhiteSpace(Concat(chunkOut)) = StripWhiteSpace(chunkText)


-----------------------------------------------------------------------------
(* The knowledge base as a state machine: one request is served at a time, *)
(* its handler runs to its end, and the response is then delivered.        *)

\* the largest number of records the local store and the remote index hold
\* together
MaxStore == 3

\* the longest conversation history a caller sends
MaxHistory == 7

Rep(c, n) == [i \in 1..n |-> c]

\* "ab": one chunk
DocA == <<97, 98>>

\* two paragraphs, "cd" and 999 times "e", that do not fit one chunk together
DocB == <<99, 100, 10, 10>> \o Rep(101, 999)

\* a load keyword, which enhanceBridgeContent tags
DocK == <<33655, 36733>>

\* the content type the parsing service gives a plain technical document
TechnicalDocument == <<25216, 26415, 25991, 26723>>

Uploads ==
    {[fileId |-> "f1", fileName |-> "a.pdf", fileType |-> "pdf",
      content |-> DocA, metadata |-> <<>>],
     [fileId |-> "f2", fileName |-> "b.ifc", fileType |-> "ifc",
      content |-> DocB, metadata |-> <<>>],
     [fileId |-> "f1", fileName |-> "a.pdf", fileType |-> "pdf",
      content |-> DocK, metadata |-> [contentType |-> TechnicalDocument]]}

\* the documents given to storeDocument directly
DirectUploads == {u \in Uploads : u.metadata = <<>>}

\* "ab" and "zz"
Queries == {<<97, 98>>, <<122, 122>>}

\* a deployment with no key at all, one with a chat key only, and one with
\* the vector database too
Envs ==
    {NoBindings,
     [NoBindings EXCEPT !.OPENAI_API_KEY = TRUE],
     [NoBindings EXCEPT !.PINECONE_API_KEY = TRUE, !.PINECONE_INDEX_URL = TRUE,
                        !.OPENAI_API_KEY = TRUE]}

Nets == {"ok", "fail"}

\* the message of a direct chat: "ab"
ChatMessages == {<<97, 98>>}

\* the message of a chat request and the query of a search request that carry
\* no word: "" and " "
BlankTexts == {<<>>, <<32>>}

\* the provider ids a caller sends: one with a key, one without, one unknown
Models == {"gpt", "claude", "llama"}

\* a conversation of n turns, the user speaking first
History(n) ==
    [k \in 1..n |-> [role |-> IF k % 2 = 1 THEN "user" ELSE "assistant",
                     content |-> [kind |-> "turn", n |-> k]]]

AskOptions ==
    {<<>>,
     [maxSources |-> 1],
     [minRelevanceScore |-> 100],
     [conversationHistory |-> History(MaxHistory)]}

SearchOptions ==
    {<<>>,
     [maxResults |-> -1, minScore |-> -1000],
     [maxResults |-> 0, minScore |-> -1000],
     [maxResults |-> 2, minScore |-> -1000],
     [fileTypes |-> <<"pdf">>],
     [fileTypes |-> <<"ifc", "dxf">>, minScore |-> -1000],
     [maxResults |-> 1, fileTypes |-> <<"ifc", "dxf">>, minScore |-> -1000]}

\* a filter entry with a scalar value, and one with an array value
Scalar(v) == [isArray |-> FALSE, items |-> <<v>>]

Array(vs) == [isArray |-> TRUE, items |-> vs]

\* the filter argument of a direct query: none, {fileType: "pdf"},
\* {fileType: ["ifc", "dxf"]} and {fileType: "ifc", fileId: "f2"}
QueryFilters ==
    {[given |-> FALSE, entries |-> <<>>],
     [given |-> TRUE, entries |-> [fileType |-> Scalar("pdf")]],
     [given |-> TRUE, entries |-> [fileType |-> Array(<<"ifc", "dxf">>)]],
     [given |-> TRUE, entries |-> [fileType |-> Scalar("ifc"), fileId |-> Scalar("f2")]]}

\* the topK argument of a direct query: one, and the default
QueryTopKs == {1, 5}

Init ==
    /\ chunkText = <<>>
    /\ chunkMax = 1
    /\ chunkOut = <<>>
    /\ chunkCalled = FALSE
    /\ env \in Envs
    /\ globalVectorStore = <<>>
    /\ pineconeIndex = <<>>
    /\ docState = [f \in FileIds |-> "never"]
    /\ last = [op |-> "none"]
    /\ inflight = <<>>
    /\ fnCall = [fn |-> "none"]

Idle == last.op = "none"

\* room is left for one more record
Room == Len(globalVectorStore) + Len(pineconeIndex) < MaxStore

\* the stores and the history after an ingestion of u that returned r
Ingested(u, r, index, op) ==
    /\ Len(r.store) + Len(index) <= MaxStore
    /\ globalVectorStore' = r.store
    /\ pineconeIndex' = index
    /\ docState' = IF r.res.success
                   THEN [docState EXCEPT ![u.fileId] = "added"]
                   ELSE docState
    /\ last' = [op |-> op, fileId |-> u.fileId, res |-> r.res]

\* POST /api/process -> RAGService.addToKnowledgeBase
AddToKnowledgeBase ==
    /\ Idle
    /\ Room
    /\ \E u \in Uploads :
        Ingested(u,
                 addToKnowledgeBase(globalVectorStore, u.fileId, u.fileName,
                                    u.fileType, u.content, u.metadata),
                 pineconeIndex, "add")
    /\ UNCHANGED env
    /\ UNCHANGED restVars

\* the entry of processingResults when the ingestion is skipped:
\* vectorStorage is null
Skipped(u) ==
    /\ last' = [op |-> "process", fileId |-> u.fileId, vectorStorage |-> "null"]
    /\ UNCHANGED <<globalVectorStore, pineconeIndex, docState>>

\* POST /api/process, for one parsed file: the document goes to
\* addToKnowledgeBase if PINECONE_API_KEY is set and its text is not empty
ProcessFile ==
    /\ Idle
    /\ Room
    /\ \E u \in Uploads :
        IF env.PINECONE_API_KEY /\ Len(u.content) > 0
        THEN Ingested(u,
                      addToKnowledgeBase(globalVectorStore, u.fileId, u.fileName,
                                         u.fileType, u.content, u.metadata),
                      pineconeIndex, "process")
        ELSE Skipped(u)
    /\ UNCHANGED env
    /\ UNCHANGED restVars

StoredDirectly(u, r) == Ingested(u, r, r.index, "store")

\* VectorService.storeDocument
StoreDocument ==
    /\ Idle
    /\ Room
    /\ \E u \in DirectUploads, embNets \in [1..2 -> Nets], upNet \in Nets :
        StoredDirectly(u,
            storeDocument(env, globalVectorStore, pineconeIndex, u.fileId,
                          u.fileName, u.fileType, u.content, u.metadata,
                          embNets, upNet))
    /\ UNCHANGED env
    /\ UNCHANGED restVars

Removed(fileId, r) ==
    /\ globalVectorStore' = r.store
    /\ pineconeIndex' = r.index
    /\ docState' = IF r.res.success /\ docState[fileId] = "added"
                   THEN [docState EXCEPT ![fileId] = "removed"]
                   ELSE docState
    /\ last' = [op |-> "remove", fileId |-> fileId, res |-> r.res]

\* DELETE /api/knowledge/:fileId -> RAGService.removeFromKnowledgeBase
RemoveFromKnowledgeBase ==
    /\ Idle
    /\ \E fileId \in FileIds, net \in Nets :
        Removed(fileId,
                removeFromKnowledgeBase(env, globalVectorStore, pineconeIndex,
                                        fileId, net))
    /\ UNCHANGED env
    /\ UNCHANGED restVars

Searched(query, options, r) ==
    last' = [op |-> "search", query |-> query, options |-> options,
             res |-> r.res, retrieval |-> r.retrieval]

\* POST /api/knowledge/search -> RAGService.searchKnowledgeBase
SearchKnowledgeBase ==
    /\ Idle
    /\ \E query \in Queries, options \in SearchOptions :
        Searched(query, options,
                 searchKnowledgeBase(globalVectorStore, query, options))
    /\ UNCHANGED <<env, globalVectorStore, pineconeIndex, docState>>
    /\ UNCHANGED restVars

Asked(question, model, options, r) ==
    last' = [op |-> "ask", question |-> question, model |-> model,
             options |-> options, res |-> r.res, chatCalls |-> r.chatCalls,
             path |-> r.path, retrieval |-> r.retrieval,
             minRelevanceScore |-> r.minRelevanceScore]

\* POST /api/chat -> RAGService.askQuestion
AskQuestion ==
    /\ Idle
    /\ \E question \in Queries, model \in Models, options \in AskOptions,
          retrNet \in Nets, chatNet \in Nets :
        Asked(question, model, options,
              askQuestion(env, globalVectorStore, pineconeIndex, question,
                          model, options, retrNet, chatNet))
    /\ UNCHANGED <<env, globalVectorStore, pineconeIndex, docState>>
    /\ UNCHANGED restVars

\* GET /api/knowledge/status -> RAGService.getKnowledgeBaseStatus
GetKnowledgeBaseStatus ==
    /\ Idle
    /\ \E net \in Nets :
        last' = [op |-> "status",
                 status |-> getKnowledgeBaseStatus(env, globalVectorStore,
                                                   pineconeIndex, net)]
    /\ UNCHANGED <<env, globalVectorStore, pineconeIndex, docState>>
    /\ UNCHANGED restVars

Chatted(message, model, messages, net) ==
    last' = [op |-> "chat", message |-> message, model |-> model,
             res |-> chat(env, messages, model, net),
             fetched |-> chatFetched(env, messages, model, net)]

\* POST /api/chat with useRAG: false -> AIService.chat
ChatDirect ==
    /\ Idle
    /\ \E message \in ChatMessages, model \in Models, net \in Nets :
        Chatted(message, model,
                <<[role |-> "user", content |-> enhanceBridgeQuery(message)]>>,
                net)
    /\ UNCHANGED <<env, globalVectorStore, pineconeIndex, docState>>
    /\ UNCHANGED restVars

\* POST /api/chat with useRAG left at true: the answer of askQuestion, or the
\* status 400 of the test on the message
ChatPosted(message, r) ==
    last' = [op |-> "post chat", message |-> message, rejected |-> FALSE,
             res |-> r.res, chatCalls |-> r.chatCalls, retrieved |-> TRUE]

PostChat ==
    /\ Idle
    /\ \E message \in BlankTexts, chatNet \in Nets :
        IF Len(message) = 0
        THEN last' = [op |-> "post chat", message |-> message, rejected |-> TRUE,
                      res |-> [success |-> FALSE, error |-> "message is empty"],
                      chatCalls |-> <<>>, retrieved |-> FALSE]
        ELSE ChatPosted(message,
                        askQuestion(env, globalVectorStore, pineconeIndex, message,
                                    "gpt",
                                    [maxSources |-> 5, minRelevanceScore |-> 700,
                                     conversationHistory |-> <<>>],
                                    "ok", chatNet))
    /\ UNCHANGED <<env, globalVectorStore, pineconeIndex, docState>>
    /\ UNCHANGED restVars

\* POST /api/knowledge/search: the answer of searchKnowledgeBase, or the
\* status 400 of the test on the query
SearchPosted(query, r) ==
    last' = [op |-> "post search", query |-> query, rejected |-> FALSE,
             res |-> r.res, retrieved |-> TRUE]

PostSearch ==
    /\ Idle
    /\ \E query \in BlankTexts :
        IF Len(query) = 0
        THEN last' = [op |-> "post search", query |-> query, rejected |-> TRUE,
                      res |-> [success |-> FALSE, error |-> "query is empty"],
                      retrieved |-> FALSE]
        ELSE SearchPosted(query,
                          searchKnowledgeBase(globalVectorStore, query,
                                              [maxResults |-> DefaultMaxResults,
                                               minScore |-> DefaultMinScore]))
    /\ UNCHANGED <<env, globalVectorStore, pineconeIndex, docState>>
    /\ UNCHANGED restVars

Queried(queryText, topK, filter, r) ==
    last' = [op |-> "query", query |-> queryText, topK |-> topK,
             filter |-> filter, res |-> r]

\* VectorService.queryDocuments
QueryDocuments ==
    /\ Idle
    /\ \E queryText \in Queries, topK \in QueryTopKs, filter \in QueryFilters,
          net \in Nets :
        Queried(queryText, topK, filter,
                queryDocuments(env, globalVectorStore, pineconeIndex, queryText,
                               topK, filter, net))
    /\ UNCHANGED <<env, globalVectorStore, pineconeIndex, docState>>
    /\ UNCHANGED restVars

\* the response is delivered to the caller
Respond ==
    /\ ~Idle
    /\ last' = [op |-> "none"]
    /\ UNCHANGED <<env, globalVectorStore, pineconeIndex, docState>>
    /\ UNCHANGED restVars

Next ==
    \/ AddToKnowledgeBase
    \/ ProcessFile
    \/ StoreDocument
    \/ RemoveFromKnowledgeBase
    \/ SearchKnowledgeBase
    \/ AskQuestion
    \/ QueryDocuments
    \/ ChatDirect
    \/ PostChat
    \/ PostSearch
    \/ GetKnowledgeBaseStatus
    \/ Respond

Spec == Init /\ [][Next]_vars

-----------------------------------------------------------------------------
(* Concurrent requests of one process against the local store. A step is   *)
(* one turn of the event loop: the code a request runs between two awaits. *)
(* storeDocumentLocal, queryDocumentsLocal and deleteDocumentLocal hold no *)
(* await, so each of them runs inside one turn; a request waits (inflight) *)
(* at the await of its caller and, for a question, at the await of the     *)
(* chat call.                                                              *)

\* the number of requests that wait at an await at the same time
MaxInflight == 2

\* the deployment of the concurrent process: no vector database
LocalEnv == [NoBindings EXCEPT !.OPENAI_API_KEY = TRUE]

\* the query text of the concurrent searches and questions: "ab"
ConcQueries == {<<97, 98>>}

\* a variant of the loop that awaits after every chunk
TurnEndsAfterOne(chunks, i) == Min2(i + 1, Len(chunks))

\* the index at which the loop of storeDocumentLocal gives the turn up, having
\* started it at chunk i: the loop holds no await and runs to its end
TurnEnd(chunks, i) == Len(chunks)

\* one turn of the loop of storeDocumentLocal for the ingestion c
IngestTurn(store, c, end) ==
    [store |-> LocalStoreLoop(store, SubSeq(c.chunks, 1, end), c.i, c.fileId,
                              c.fileName, c.fileType, c.metadata),
     c |-> [c EXCEPT !.i = end]]

\* addToKnowledgeBase up to the loop of storeDocumentLocal
IngestionOf(u, chunks) ==
    [op |-> "ingest", fileId |-> u.fileId, fileName |-> u.fileName,
     fileType |-> u.fileType, chunks |-> chunks, i |-> 0,
     metadata |-> Spread(u.metadata, [enhancedForBridge |-> TRUE])]

ConcInit ==
    /\ chunkText = <<>>
    /\ chunkMax = 1
    /\ chunkOut = <<>>
    /\ chunkCalled = FALSE
    /\ env = LocalEnv
    /\ globalVectorStore = <<>>
    /\ pineconeIndex = <<>>
    /\ docState = [f \in FileIds |-> "never"]
    /\ last = [op |-> "none"]
    /\ inflight = <<>>
    /\ fnCall = [fn |-> "none"]

ConcFrame == UNCHANGED <<chunkText, chunkMax, chunkOut, chunkCalled, env, pineconeIndex, fnCall>>

TurnTaken(r, k) ==
    /\ Len(r.store) <= MaxStore
    /\ globalVectorStore' = r.store
    /\ inflight' = IF k = 0 THEN Append(inflight, r.c)
                   ELSE [inflight EXCEPT ![k] = r.c]
    /\ last' = [op |-> "ingest turn", fileId |-> r.c.fileId, written |-> r.c.i]

Started(c) ==
    TurnTaken(IngestTurn(globalVectorStore, c, TurnEnd(c.chunks, c.i)), 0)

\* POST /api/process: the turn that calls addToKnowledgeBase
ConcIngest ==
    /\ Len(inflight) < MaxInflight
    /\ Len(globalVectorStore) < MaxStore
    /\ \E u \in DirectUploads :
        Started(IngestionOf(u, splitTextIntoChunks(
                                enhanceBridgeContent(u.content, u.metadata),
                                StoreChunkSize)))
    /\ UNCHANGED docState
    /\ ConcFrame

\* the turn that resumes an ingestion: the next chunks while there are some,
\* and the returned object after the last one
ConcIngestResume ==
    /\ \E k \in 1..Len(inflight) :
        /\ inflight[k].op = "ingest"
        /\ IF inflight[k].i < Len(inflight[k].chunks)
           THEN /\ TurnTaken(IngestTurn(globalVectorStore, inflight[k],
                                        TurnEnd(inflight[k].chunks, inflight[k].i)),
                             k)
                /\ UNCHANGED docState
           ELSE /\ inflight' = SubSeq(inflight, 1, k - 1)
                                \o SubSeq(inflight, k + 1, Len(inflight))
                /\ docState' = [docState EXCEPT ![inflight[k].fileId] = "added"]
                /\ last' = [op |-> "add", fileId |-> inflight[k].fileId,
                            res |-> [success |-> TRUE,
                                     vectorCount |-> Len(inflight[k].chunks)]]
                /\ UNCHANGED globalVectorStore
    /\ ConcFrame

ConcRemoved(fileId, r) ==
    /\ globalVectorStore' = r.store
    /\ last' = [op |-> "remove", fileId |-> fileId, res |-> r.res]

\* DELETE /api/knowledge/:fileId: deleteDocumentLocal runs in the turn of the call
ConcRemove ==
    /\ \E fileId \in FileIds :
        ConcRemoved(fileId, removeFromKnowledgeBase(env, globalVectorStore,
                                                    pineconeIndex, fileId, "ok"))
    /\ UNCHANGED <<docState, inflight>>
    /\ ConcFrame

\* the ids of the records a query scores: the store as it is in its turn
ScoredIds == [k \in 1..Len(globalVectorStore) |-> globalVectorStore[k].id]

ConcSearched(query, r) ==
    last' = [op |-> "search", query |-> query, scored |-> ScoredIds,
             res |-> r.res]

\* POST /api/knowledge/search: queryDocumentsLocal runs in the turn of the call
ConcSearch ==
    /\ \E query \in ConcQueries :
        ConcSearched(query, searchKnowledgeBase(globalVectorStore, query, <<>>))
    /\ UNCHANGED <<globalVectorStore, docState, inflight>>
    /\ ConcFrame

ConcRetrieved(question, retrievalResult) ==
    /\ inflight' = Append(inflight, [op |-> "ask", question |-> question,
                                     retrieval |-> retrievalResult])
    /\ last' = [op |-> "retrieve", query |-> question, scored |-> ScoredIds]

\* POST /api/chat: the turn of askQuestion up to the await of the chat call
\* (a question writes nothing: one of them waits at a time)
ConcAsk ==
    /\ Len(inflight) < MaxInflight
    /\ \A k \in 1..Len(inflight) : inflight[k].op # "ask"
    /\ \E question \in ConcQueries :
        ConcRetrieved(question,
                      queryDocuments(env, globalVectorStore, pineconeIndex,
                                     question, DefaultMaxSources,
                                     [given |-> FALSE, entries |-> <<>>], "ok"))
    /\ UNCHANGED <<globalVectorStore, docState>>
    /\ ConcFrame

ConcAnswered(k, r) ==
    /\ inflight' = SubSeq(inflight, 1, k - 1) \o SubSeq(inflight, k + 1, Len(inflight))
    /\ last' = [op |-> "ask", question |-> inflight[k].question, res |-> r.res,
                path |-> r.path]

\* the turn of askQuestion after the chat call has returned
ConcAnswer ==
    /\ \E k \in 1..Len(inflight), chatNet \in Nets :
        /\ inflight[k].op = "ask"
        /\ ConcAnswered(k, AskAfter(env, inflight[k].question, "gpt", <<>>,
                                    inflight[k].retrieval,
                                    DefaultMinRelevanceScore, chatNet))
    /\ UNCHANGED <<globalVectorStore, docState>>
    /\ ConcFrame

ConcNext ==
    \/ ConcIngest
    \/ ConcIngestResume
    \/ ConcRemove
    \/ ConcSearch
    \/ ConcAsk
    \/ ConcAnswer

SpecConc == ConcInit /\ [][ConcNext]_vars

-----------------------------------------------------------------------------
(* Calls of the pure functions of VectorService, on arguments drawn from   *)
(* small sets.                                                             *)

\* the stores are empty and no request is made
NoRequest ==
    /\ chunkText = <<>>
    /\ chunkMax = 1
    /\ chunkOut = <<>>
    /\ chunkCalled = FALSE
    /\ env = NoBindings
    /\ globalVectorStore = <<>>
    /\ pineconeIndex = <<>>
    /\ docState = [f \in FileIds |-> "never"]
    /\ last = [op |-> "none"]
    /\ inflight = <<>>

FnFrame == UNCHANGED <<chunkText, chunkMax, chunkOut, chunkCalled, env, globalVectorStore, pineconeIndex, docState, last, inflight>>

\* the vectors of n components, each -1, 0 or 1 (in tenths)
VectorsOf(n) == [1..n -> {-10, 0, 10}]

\* the arguments of calculateCosineSimilarity: vectors of the dimension of the
\* embeddings, and vectors one component short
CosineVectors == VectorsOf(Dim - 1) \cup VectorsOf(Dim)

CosineInit ==
    /\ NoRequest
    /\ \E a \in CosineVectors, b \in CosineVectors :
        fnCall = [fn |-> "calculateCosineSimilarity", vectorA |-> a,
                  vectorB |-> b, done |-> FALSE]

\* calculateCosineSimilarity(vectorA, vectorB): the function holds no throw,
\* it returns a number on every pair of arrays
CosineCall ==
    /\ fnCall.fn = "calculateCosineSimilarity"
    /\ ~fnCall.done
    /\ fnCall' = [fn |-> fnCall.fn, vectorA |-> fnCall.vectorA,
                  vectorB |-> fnCall.vectorB, done |-> TRUE,
                  out |-> [threw |-> FALSE,
                           value |-> calculateCosineSimilarity(fnCall.vectorA,
                                                               fnCall.vectorB)]]
    /\ FnFrame

SpecCosine == CosineInit /\ [][CosineCall]_vars

\* the longest text handed to simpleHash
MaxHashLen == 2

\* "A", "B" and "a"
HashAlphabet == {65, 66, 97}

\* the texts of one to MaxHashLen characters
HashTexts == UNION {[1..n -> HashAlphabet] : n \in 1..MaxHashLen}

HashInit ==
    /\ NoRequest
    /\ \E a \in HashTexts, b \in HashTexts :
        fnCall = [fn |-> "simpleHash", textA |-> a, textB |-> b, done |-> FALSE]

\* the first statement of generateMockEmbedding, on two texts: the vector is
\* made from the hash alone (sin(hash + i) for i = 0..1535)
HashCall ==
    /\ fnCall.fn = "simpleHash"
    /\ ~fnCall.done
    /\ fnCall' = [fn |-> fnCall.fn, textA |-> fnCall.textA,
                  textB |-> fnCall.textB, done |-> TRUE,
                  hashA |-> simpleHash(fnCall.textA),
                  hashB |-> simpleHash(fnCall.textB)]
    /\ FnFrame

SpecHash == HashInit /\ [][HashCall]_vars

-----------------------------------------------------------------------------
(* The reading of a vendor's response by chatWithOpenAI, chatWithClaude,   *)
(* chatWithGemini and chatWithQwen. A JSON object is a function from its   *)
(* keys, an array a sequence, a property that is not set is not in the     *)
(* domain; reading a property of undefined throws a TypeError.             *)

Key(k) == [index |-> FALSE, key |-> k]

First == [index |-> TRUE, key |-> ""]

\* per provider id: the properties read on the way to the generated text
TextPath ==
    [gpt |-> <<Key("choices"), First, Key("message"), Key("content")>>,
     claude |-> <<Key("content"), First, Key("text")>>,
     gemini |-> <<Key("candidates"), First, Key("content"), Key("parts"), First,
                  Key("text")>>,
     qwen |-> <<Key("output"), Key("text")>>]

\* the payload that holds the first depth properties of the path, the last
\* of them (if it is reached) holding the text
RECURSIVE Nest(_, _, _)
Nest(path, depth, text) ==
    IF path = <<>> THEN text
    ELSE IF depth = 0 THEN <<>>
    ELSE IF Head(path).index THEN <<Nest(Tail(path), depth - 1, text)>>
    ELSE [k \in {Head(path).key} |-> Nest(Tail(path), depth - 1, text)]

\* value.a[0].b...: the value read along the path, undefined (defined is
\* FALSE), or the TypeError of a property read on undefined
RECURSIVE Read(_, _, _)
Read(defined, value, path) ==
    IF path = <<>> THEN [threw |-> FALSE, defined |-> defined, value |-> value]
    ELSE IF ~defined THEN [threw |-> TRUE, defined |-> FALSE, value |-> <<>>]
    ELSE IF (IF Head(path).index THEN 1 ELSE Head(path).key) \in DOMAIN value
    THEN Read(TRUE, value[IF Head(path).index THEN 1 ELSE Head(path).key], Tail(path))
    ELSE Read(FALSE, <<>>, Tail(path))

\* the object a provider's function returns on a response whose status is ok
Generated(model, text) ==
    [threw |-> FALSE,
     value |-> [success |-> TRUE,
                response |-> [defined |-> text.defined, text |-> text.value],
                model |-> Vendors[model].name]]

FormatError(model) == [threw |-> TRUE, message |-> <<model, "response format error">>]

\* the four functions from the response on: its status and its JSON body
readVendorResponse(model, ok, data) ==
    IF ~ok THEN [threw |-> TRUE, message |-> <<model, "API error">>]
    ELSE IF model = "gemini" /\ ~Read(TRUE, data, SubSeq(TextPath[model], 1, 3)).defined
    THEN FormatError(model)
    ELSE IF Read(TRUE, data, TextPath[model]).threw
    THEN [threw |-> TRUE, message |-> <<model, "TypeError">>]
    ELSE IF model = "qwen" /\ Read(TRUE, data, TextPath[model]).value = <<>>
    THEN FormatError(model)
    ELSE Generated(model, Read(TRUE, data, TextPath[model]))

\* chat on that response: the catch turns the error into a failed response
chatOnResponse(model, ok, data) ==
    LET r == readVendorResponse(model, ok, data)
    IN  IF r.threw
        THEN [success |-> FALSE, error |-> r.message, model |-> model]
        ELSE r.value

\* the texts a vendor generates: "", "hi" and "ok"
GeneratedTexts == {<<>>, <<104, 105>>, <<111, 107>>}

ResponseInit ==
    /\ NoRequest
    /\ \E model \in DOMAIN Vendors, ok \in BOOLEAN, text \in GeneratedTexts :
        \E depth \in 0..Len(TextPath[model]) :
            fnCall = [fn |-> "chat", model |-> model, ok |-> ok, depth |-> depth,
                      data |-> Nest(TextPath[model], depth, text), done |-> FALSE]

ResponseCall ==
    /\ fnCall.fn = "chat"
    /\ ~fnCall.done
    /\ fnCall' = [fn |-> fnCall.fn, model |-> fnCall.model, ok |-> fnCall.ok,
                  depth |-> fnCall.depth, data |-> fnCall.data, done |-> TRUE,
                  out |-> chatOnResponse(fnCall.model, fnCall.ok, fnCall.data)]
    /\ FnFrame

SpecResponse == ResponseInit /\ [][ResponseCall]_vars

-----------------------------------------------------------------------------
(* Ingestion into the local store, one call at a time: the arguments are   *)
(* drawn first, the call is made, and the document is removed again.       *)

\* the empty text, " ", " \n" and "ab"
IngestTexts == {<<>>, <<32>>, <<32, 10>>, DocA}

\* the caller's metadata: none, the content type of the parsing service, and
\* maps that name a core field of the record
IngestMetadatas ==
    {<<>>,
     [contentType |-> TechnicalDocument],
     [fileId |-> "f2"],
     [fileName |-> "z.dxf", fileType |-> "dxf"],
     [content |-> <<122>>],
     [chunkIndex |-> 7]}

\* the store before the call: empty, or holding the document "f2"
IngestStores ==
    {<<>>, storeDocumentLocal(<<>>, "f2", "b.ifc", "ifc", DocA, <<>>).store}

IngestInit ==
    /\ chunkText = <<>>
    /\ chunkMax = 1
    /\ chunkOut = <<>>
    /\ chunkCalled = FALSE
    /\ env = NoBindings
    /\ globalVectorStore \in IngestStores
    /\ pineconeIndex = <<>>
    /\ docState = [f \in FileIds |-> "never"]
    /\ last = [op |-> "none"]
    /\ inflight = <<>>
    /\ \E fileId \in FileIds, content \in IngestTexts, metadata \in IngestMetadatas :
        fnCall = [fn |-> "ingest", stage |-> "drawn", fileId |-> fileId,
                  fileName |-> "a.pdf", fileType |-> "pdf",
                  content |-> content, metadata |-> metadata]

IngestFrame == UNCHANGED <<chunkText, chunkMax, chunkOut, chunkCalled, env, pineconeIndex, docState, last, inflight>>

\* the call returned r after it handed text to the chunker
IngestReturned(via, text, r) ==
    /\ globalVectorStore' = r.store
    /\ fnCall' = [fn |-> "ingest", stage |-> "ingested", via |-> via,
                  fileId |-> fnCall.fileId, fileName |-> fnCall.fileName,
                  fileType |-> fnCall.fileType, content |-> fnCall.content,
                  metadata |-> fnCall.metadata,
                  before |-> globalVectorStore,
                  chunks |-> splitTextIntoChunks(text, StoreChunkSize),
                  res |-> r.res]

\* RAGService.addToKnowledgeBase(fileId, fileName, fileType, content, metadata)
IngestAdd ==
    /\ fnCall.fn = "ingest"
    /\ fnCall.stage = "drawn"
    /\ IngestReturned("addToKnowledgeBase",
                enhanceBridgeContent(fnCall.content, fnCall.metadata),
                addToKnowledgeBase(globalVectorStore, fnCall.fileId,
                                   fnCall.fileName, fnCall.fileType,
                                   fnCall.content, fnCall.metadata))
    /\ IngestFrame

\* VectorService.storeDocumentLocal(fileId, fileName, fileType, content, metadata)
IngestStoreLocal ==
    /\ fnCall.fn = "ingest"
    /\ fnCall.stage = "drawn"
    /\ IngestReturned("storeDocumentLocal", fnCall.content,
                storeDocumentLocal(globalVectorStore, fnCall.fileId,
                                   fnCall.fileName, fnCall.fileType,
                                   fnCall.content, fnCall.metadata))
    /\ IngestFrame

\* VectorService.deleteDocumentLocal(fileId) on the document just ingested
IngestRemove ==
    /\ fnCall.fn = "ingest"
    /\ fnCall.stage = "ingested"
    /\ globalVectorStore' = deleteDocumentLocal(globalVectorStore, fnCall.fileId).store
    /\ fnCall' = [fnCall EXCEPT !.stage = "removed"]
    /\ IngestFrame

IngestNext == IngestAdd \/ IngestStoreLocal \/ IngestRemove

SpecIngest == IngestInit /\ [][IngestNext]_vars

-----------------------------------------------------------------------------
(* Properties of the knowledge base.                                       *)

\* the matches the request being answered got from its query
Retrieved ==
    IF last.op = "search" THEN last.res.matches
    ELSE IF last.op = "ask" /\ last.retrieval.success THEN last.retrieval.matches
    ELSE <<>>

\* C1 (delete completeness): once a document was added and then removed, no
\* search and no question returns a match of that document, whatever
\* credentials are configured.
C1_DeleteCompleteness ==
    \A k \in 1..Len(Retrieved) :
        docState[Retrieved[k].metadata.fileId] # "removed"

\* C2 (embedding-strategy consistency): the vectors a query is scored against
\* were produced by the strategy that produced the query vector.
C2_StrategyConsistency ==
    last.op = "ask" =>
        \A by \in last.retrieval.trace.scoredBy : by = last.retrieval.trace.queryBy

\* the content of the last message of a chat call: the prompt
PromptOf(call) == call.messages[Len(call.messages)].content

\* some retrieved match reaches the threshold and yields the source entry
FromRelevantMatch(source) ==
    \E j \in 1..Len(last.retrieval.matches) :
        /\ last.retrieval.matches[j].score >= last.minRelevanceScore
        /\ SourcesOf(<<last.retrieval.matches[j]>>)[1] = source

\* some retrieved match reaches the threshold and is the prompt's entry
PromptedRelevantMatch(doc) ==
    \E j \in 1..Len(last.retrieval.matches) :
        /\ last.retrieval.matches[j].score >= last.minRelevanceScore
        /\ last.retrieval.matches[j].content = doc.content
        /\ RoundPercent(last.retrieval.matches[j].score) = doc.percent

\* C5 (relevance filter soundness): when askQuestion succeeds with sources,
\* every source comes from a retrieved match whose score reaches
\* minRelevanceScore, and so does every document of the context prompt.
C5_RelevanceFilter ==
    (last.op = "ask" /\ last.res.success /\ last.res.sources # <<>>) =>
        /\ \A k \in 1..Len(last.res.sources) :
                FromRelevantMatch(last.res.sources[k])
        /\ \A c \in 1..Len(last.chatCalls) :
                PromptOf(last.chatCalls[c]).kind = "context" =>
                    \A k \in 1..Len(PromptOf(last.chatCalls[c]).docs) :
                        PromptedRelevantMatch(PromptOf(last.chatCalls[c]).docs[k])

\* a successful answer with sources, made while some retrieved match was
\* below the threshold
C5_Witness ==
    /\ last.op = "ask"
    /\ last.res.success
    /\ last.res.sources # <<>>
    /\ \E j \in 1..Len(last.retrieval.matches) :
            last.retrieval.matches[j].score < last.minRelevanceScore

\* retrieval succeeded and no match reaches the threshold
NothingRelevant ==
    /\ last.op = "ask"
    /\ last.retrieval.success
    /\ \A j \in 1..Len(last.retrieval.matches) :
            last.retrieval.matches[j].score < last.minRelevanceScore

\* C6 (degradation trigger): when retrieval succeeds and no match reaches
\* minRelevanceScore, the chat provider is called once with a prompt that
\* holds no document context, and when that call succeeds the result is a
\* success with its answer and no sources.
C6_DegradationTrigger ==
    NothingRelevant =>
        /\ Len(last.chatCalls) = 1
        /\ PromptOf(last.chatCalls[1]) = enhanceBridgeQuery(last.question)
        /\ last.chatCalls[1].response.success =>
                /\ last.res.success
                /\ last.res.sources = <<>>
                /\ last.res.answer = last.chatCalls[1].response.response

\* matches were retrieved, none of them relevant, and the direct chat answered
C6_Witness ==
    /\ NothingRelevant
    /\ last.retrieval.matches # <<>>
    /\ last.chatCalls[1].response.success

\* the conversation history the caller sent with the question
HistoryOf(options) == OrDefault(options, "conversationHistory", <<>>)

\* C7 (retrieval outage): askQuestion always returns a result; when retrieval
\* fails it makes the one chat call of the fallback path (the kept history
\* and the question, no document context), and the result is decided by that
\* call alone.
C7_RetrievalOutage ==
    last.op = "ask" =>
        /\ last.res.success \in BOOLEAN
        /\ ~last.retrieval.success =>
            /\ Len(last.chatCalls) = 1
            /\ last.chatCalls[1].messages =
                    SliceLast(HistoryOf(last.options), HistoryKept)
                        \o <<[role |-> "user",
                              content |-> enhanceBridgeQuery(last.question)]>>
            /\ last.res.success = last.chatCalls[1].response.success
            /\ last.res.success =>
                    /\ last.res.sources = <<>>
                    /\ last.res.answer = last.chatCalls[1].response.response
            /\ ~last.res.success =>
                    last.res.error.cause = last.chatCalls[1].response.error

\* retrieval failed and the question was answered all the same
C7_Witness ==
    /\ last.op = "ask"
    /\ ~last.retrieval.success
    /\ last.res.success

\* the chat call on the context prompt failed
GenerationFailed ==
    /\ last.op = "ask"
    /\ Len(last.chatCalls) >= 1
    /\ PromptOf(last.chatCalls[1]).kind = "context"
    /\ ~last.chatCalls[1].response.success

\* C8 (generation failure): when the chat call of the grounded path fails,
\* askQuestion returns a failure that carries the provider's message, with
\* no answer and no sources, and makes no other chat call.
C8_GenerationFailure ==
    GenerationFailed =>
        /\ ~last.res.success
        /\ last.res.error.cause = last.chatCalls[1].response.error
        /\ DOMAIN last.res = {"success", "error"}
        /\ Len(last.chatCalls) = 1

\* the chat call on a context prompt failed and the failure was returned to
\* the caller
C8_Witness ==
    /\ GenerationFailed
    /\ ~last.res.success

\* the matches a local query returned
LocalMatches ==
    IF last.op = "search" THEN last.retrieval.matches
    ELSE IF last.op = "ask" /\ last.retrieval.trace.backend = "local"
    THEN last.retrieval.matches
    ELSE <<>>

\* C9 (query ordering): the matches of a local query are in non-increasing
\* order of score, and matches of equal score are in the order in which
\* their records were inserted into the store.
C9_QueryOrdering ==
    \A i, j \in 1..Len(LocalMatches) :
        i < j =>
            \/ LocalMatches[i].score > LocalMatches[j].score
            \/ /\ LocalMatches[i].score = LocalMatches[j].score
               /\ LocalMatches[i].idx < LocalMatches[j].idx

\* a local query returned two matches of equal score and one of another score
C9_Witness ==
    /\ \E i, j \in 1..Len(LocalMatches) :
            i < j /\ LocalMatches[i].score = LocalMatches[j].score
    /\ \E i, j \in 1..Len(LocalMatches) :
            LocalMatches[i].score > LocalMatches[j].score

\* the positions of the stored records that satisfy the filter of the search
Satisfying ==
    {k \in 1..Len(globalVectorStore) :
        MatchesFilter(SearchFilter(last.options), globalVectorStore[k].metadata)}

\* the topK the search hands to the local query
TopKOf(options) == OrDefault(options, "maxResults", DefaultMaxResults)

\* the score the query of the search gives the record at position k
ScoreAt(k) ==
    calculateCosineSimilarity(generateMockEmbedding(last.query),
                              globalVectorStore[k].values.vec)

\* C10 (top-K): a local query returns min(max(topK, 0), n) matches, n being
\* the number of stored records that satisfy the filter, and no record it
\* leaves out scores strictly higher than one it returns.
C10_TopK ==
    last.op = "search" =>
        /\ Len(last.retrieval.matches) =
                Min2(Max2(TopKOf(last.options), 0), Cardinality(Satisfying))
        /\ \A k \in Satisfying :
                (\A m \in 1..Len(last.retrieval.matches) :
                        last.retrieval.matches[m].idx # k)
                => \A m \in 1..Len(last.retrieval.matches) :
                        ScoreAt(k) <= last.retrieval.matches[m].score

\* the filter, the topK and the query text of the local query being answered
\* (a search always hands a filter object over, empty or not)
LocalQuery ==
    IF last.op = "search"
    THEN [filter |-> [given |-> TRUE, entries |-> SearchFilter(last.options)],
          topK |-> TopKOf(last.options), text |-> last.query,
          matches |-> last.retrieval.matches]
    ELSE IF last.op = "query" /\ last.res.trace.backend = "local"
    THEN [filter |-> last.filter, topK |-> last.topK, text |-> last.query,
          matches |-> last.res.matches]
    ELSE [filter |-> [given |-> FALSE, entries |-> <<>>], topK |-> 0,
          text |-> <<>>, matches |-> <<>>]

\* the metadata has, on every key of the filter, the filter's value (a
\* scalar) or one of the filter's values (an array)
Satisfies(metadata, entries) ==
    \A key \in DOMAIN entries :
        /\ key \in DOMAIN metadata
        /\ IF entries[key].isArray
           THEN metadata[key] \in {entries[key].items[n] :
                                        n \in 1..Len(entries[key].items)}
           ELSE metadata[key] = entries[key].items[1]

\* the positions of the stored records that satisfy the local query's filter
SatisfyingQuery ==
    {k \in 1..Len(globalVectorStore) :
        Satisfies(globalVectorStore[k].metadata, LocalQuery.filter.entries)}

\* C11 (filter soundness): every match of a filtered local query satisfies the
\* filter on every key, and the filter comes before the cut to topK: with
\* topK >= 0 the query returns min(topK, n) matches, n being the number of
\* stored records that satisfy the filter, whatever the other records score.
C11_FilterSoundness ==
    LocalQuery.filter.given =>
        /\ \A m \in 1..Len(LocalQuery.matches) :
                Satisfies(LocalQuery.matches[m].metadata, LocalQuery.filter.entries)
        /\ LocalQuery.topK >= 0 =>
                Len(LocalQuery.matches) =
                    Min2(LocalQuery.topK, Cardinality(SatisfyingQuery))

\* a filtered local query returned a match while a stored record that does
\* not satisfy the filter scores higher than it
C11_Witness ==
    /\ LocalQuery.filter.given
    /\ LocalQuery.filter.entries # <<>>
    /\ \E m \in 1..Len(LocalQuery.matches) :
        \E k \in 1..Len(globalVectorStore) :
            /\ k \notin SatisfyingQuery
            /\ calculateCosineSimilarity(generateMockEmbedding(LocalQuery.text),
                                         globalVectorStore[k].values.vec)
                    > LocalQuery.matches[m].score

\* the step is a removal answered by the local strategy
LocalRemoval ==
    /\ last.op = "none"
    /\ last'.op = "remove"
    /\ ~PineconeConfigured(env)

\* the positions of the records of a document in the local store
RecordsOf(fileId) ==
    {k \in 1..Len(globalVectorStore) :
        globalVectorStore[k].metadata.fileId = fileId}

\* C12 (delete is idempotent and total): a local removal always reports
\* success; when the store holds no chunk of the document it leaves the store
\* as it was; and after it the store holds no chunk of the document, so that a
\* second removal of the same document is one that changes nothing.
C12_DeleteIdempotent ==
    [][LocalRemoval =>
        /\ last'.res.success
        /\ RecordsOf(last'.fileId) = {} => globalVectorStore' = globalVectorStore
        /\ \A k \in 1..Len(globalVectorStore') :
                globalVectorStore'[k].metadata.fileId # last'.fileId
        /\ deleteDocumentLocal(globalVectorStore', last'.fileId).store
                = globalVectorStore']_vars

\* a local removal of a document that has no chunk in a store that holds the
\* chunks of another document (a document never ingested, or removed before)
C12_Witness ==
    /\ last.op = "remove"
    /\ ~PineconeConfigured(env)
    /\ last.res.success
    /\ RecordsOf(last.fileId) = {}
    /\ docState[last.fileId] \in {"never", "removed"}
    /\ Len(globalVectorStore) > 0

\* the step before this state was the turn of a query
QueryTurn == last.op \in {"search", "retrieve"}

\* the ingestions that have started and not returned yet
Ingesting == {k \in 1..Len(inflight) : inflight[k].op = "ingest"}

\* C13 (no torn writes): in every interleaving of the turns of concurrent
\* requests against the local store, the store a query scores holds, of every
\* ingestion that has started, all the chunks it adds, never a part of them;
\* and after the turn of a removal it holds no chunk of the removed document.
C13_NoTornWrites ==
    /\ QueryTurn =>
        /\ last.scored = ScoredIds
        /\ \A k \in Ingesting :
                inflight[k].i \in {0, Len(inflight[k].chunks)}
    /\ last.op = "remove" => RecordsOf(last.fileId) = {}

\* a query scored the store while the ingestion of a document of two chunks
\* had started and not returned, and scored both chunks
C13_Witness ==
    /\ QueryTurn
    /\ \E k \in Ingesting :
        /\ Len(inflight[k].chunks) >= 2
        /\ inflight[k].i = Len(inflight[k].chunks)
        /\ Cardinality({n \in 1..Len(last.scored) :
                            last.scored[n][1] = inflight[k].fileId}) >= 2

\* the result reports that a provider's key is not configured
MissingCredential(res) ==
    /\ ~res.success
    /\ res.error.cause[2] = "API key not configured"

\* C14 (Scenario C): in a deployment with no embedding key and no vector
\* database key, the upload of a document (its text is not empty) ingests it
\* with success, and a question asked of a known provider reports no missing
\* key: it succeeds unless the provider's API fails.
C14_ScenarioC ==
    env = NoBindings =>
        /\ last.op = "process" =>
                /\ "res" \in DOMAIN last
                /\ last.res.success
        /\ (last.op = "ask" /\ last.model \in DOMAIN Vendors) =>
                /\ ~MissingCredential(last.res)
                /\ last.res.success \/ last.res.error.cause[2] = "API error"

\* no two records of the sequence have the same id
UniqueIds(records) ==
    \A j, k \in 1..Len(records) : j # k => records[j].id # records[k].id

\* C15 (chunk id uniqueness): after any sequence of ingestions and removals,
\* the same document id ingested again without a removal included, no two
\* chunk records of the index have the same id.
C15_ChunkIdUniqueness ==
    /\ UniqueIds(globalVectorStore)
    /\ UniqueIds(pineconeIndex)

CountOf(records, fileId) ==
    Cardinality({k \in 1..Len(records) : records[k].metadata.fileId = fileId})

\* the step is a call of storeDocument for a document of which neither the
\* local store nor the remote index holds a record
FirstStore ==
    /\ last.op = "none"
    /\ last'.op = "store"
    /\ CountOf(globalVectorStore, last'.fileId) = 0
    /\ CountOf(pineconeIndex, last'.fileId) = 0

\* C17 (partial-ingestion accounting): whatever chunks fail to embed and
\* whether the upload fails or not, the count storeDocument returns is the
\* number of chunk records the call added to the index.
C17_PartialIngestion ==
    [][(FirstStore /\ "vectorCount" \in DOMAIN last'.res) =>
            last'.res.vectorCount = CountOf(globalVectorStore', last'.fileId)
                                    + CountOf(pineconeIndex', last'.fileId)]_vars

\* the selected provider is known and its key is set
Selectable(model) == model \in DOMAIN Vendors /\ env[Vendors[model].key]

\* C18 (no cross-provider fallback inside chat): one call of chat makes at
\* most one fetch call, to the host of the selected provider; when the
\* provider id is unknown or its key is missing it makes none and returns a
\* failure that names the selected provider.
C18_NoCrossProviderFallback ==
    last.op = "chat" =>
        /\ Len(last.fetched) <= 1
        /\ \A k \in 1..Len(last.fetched) :
                /\ last.model \in DOMAIN Endpoints
                /\ last.fetched[k] = Endpoints[last.model]
        /\ ~Selectable(last.model) =>
                /\ last.fetched = <<>>
                /\ ~last.res.success
                /\ last.res.model = last.model
                /\ last.res.error[1] = last.model

\* a call of chat for a provider whose key is missing, while the key of
\* another provider is set, contacted no host and failed
C18_Witness ==
    /\ last.op = "chat"
    /\ last.model = "claude"
    /\ env.OPENAI_API_KEY
    /\ ~env.ANTHROPIC_API_KEY
    /\ last.fetched = <<>>
    /\ ~last.res.success

\* C19 (local-embedding distinctness): two distinct non-empty texts have
\* different 32-bit hashes, the hashes their local embeddings are made from.
C19_EmbeddingDistinctness ==
    (/\ fnCall.fn = "simpleHash"
     /\ fnCall.done
     /\ fnCall.textA # fnCall.textB)
        => fnCall.hashA # fnCall.hashB

\* the records of the other documents, in their order
OthersIn(records, fileId) ==
    SelectSeq(records, LAMBDA v : v.metadata.fileId # fileId)

\* the records of a are the first records of b, in the same order
IsPrefix(a, b) == Len(a) <= Len(b) /\ SubSeq(b, 1, Len(a)) = a

\* C20 (chunk lifecycle): a question, a search, a direct query, a chat and a
\* status request leave the store as it is; an ingestion leaves every record
\* the store held at its place, unchanged (id, embedding, text, metadata); a
\* removal leaves the records of the other documents unchanged and in their
\* order.
C20_ChunkLifecycle ==
    [][/\ last'.op \in {"ask", "search", "query", "chat", "status", "none"} =>
            globalVectorStore' = globalVectorStore
       /\ last'.op \in {"add", "process", "store"} =>
            IsPrefix(globalVectorStore, globalVectorStore')
       /\ last'.op = "remove" =>
            OthersIn(globalVectorStore', last'.fileId)
                = OthersIn(globalVectorStore, last'.fileId)]_vars

\* a local removal has taken the records of its document out of a store that
\* still holds the records of another document
C20_Witness ==
    /\ last.op = "remove"
    /\ ~PineconeConfigured(env)
    /\ docState[last.fileId] = "removed"
    /\ RecordsOf(last.fileId) = {}
    /\ \E g \in FileIds : g # last.fileId /\ RecordsOf(g) # {}

\* the text is empty or holds white space only
Blank(text) == \A k \in 1..Len(text) : text[k] \in WhiteSpace

\* C21 (empty query validation): a chat request whose message, and a search
\* request whose query, is empty or white space only is rejected, and neither
\* the retrieval step nor a chat provider is called for it.
C21_EmptyQueryValidation ==
    /\ (last.op = "post chat" /\ Blank(last.message)) =>
            /\ last.rejected
            /\ ~last.retrieved
            /\ last.chatCalls = <<>>
    /\ (last.op = "post search" /\ Blank(last.query)) =>
            /\ last.rejected
            /\ ~last.retrieved

\* C22 (ask protocol order): askQuestion takes exactly one of the grounded
\* and the fallback branch and calls the chat provider at most once; the call
\* of the grounded branch comes after the retrieval step: its prompt is built
\* from the matches the retrieval returned.
C22_AskProtocolOrder ==
    last.op = "ask" =>
        /\ last.path \in {"grounded", "fallback"}
        /\ Len(last.chatCalls) <= 1
        /\ \A c \in 1..Len(last.chatCalls) :
            /\ last.path = "grounded" =>
                /\ last.retrieval.success
                /\ PromptOf(last.chatCalls[c])
                    = buildContextPrompt(
                        last.question,
                        SelectSeq(last.retrieval.matches,
                                  LAMBDA m : m.score >= last.minRelevanceScore))
            /\ last.path = "fallback" =>
                PromptOf(last.chatCalls[c]) = enhanceBridgeQuery(last.question)

\* askQuestion took the grounded branch on two retrieved documents and its
\* one chat call succeeded
C22_Witness ==
    /\ last.op = "ask"
    /\ last.path = "grounded"
    /\ Len(last.chatCalls) = 1
    /\ Len(PromptOf(last.chatCalls[1]).docs) >= 2
    /\ last.chatCalls[1].response.success

\* C23 (history bound): on both paths the message list handed to the chat
\* provider is the last min(6, n) turns of the n turns of history, in their
\* order, followed by one new user message; it has at most 7 entries.
C23_HistoryBound ==
    last.op = "ask" =>
        \A c \in 1..Len(last.chatCalls) :
            LET history == HistoryOf(last.options)
                n == Len(history)
                kept == IF n < 6 THEN n ELSE 6
                messages == last.chatCalls[c].messages
            IN  /\ Len(messages) = kept + 1
                /\ Len(messages) <= 7
                /\ \A k \in 1..kept : messages[k] = history[n - kept + k]
                /\ messages[kept + 1].role = "user"
                /\ messages[kept + 1].content.question = last.question

\* a question came with more than six turns of history and was handed to the
\* chat provider with the last six and the new message
C23_Witness ==
    /\ last.op = "ask"
    /\ Len(HistoryOf(last.options)) > 6
    /\ Len(last.chatCalls) = 1
    /\ Len(last.chatCalls[1].messages) = 7
    /\ last.chatCalls[1].messages[1] = HistoryOf(last.options)[Len(HistoryOf(last.options)) - 5]

\* C24 (malformed response detection): for each provider, a response of
\* status ok whose payload lacks the generated text, at whatever level of the
\* envelope, makes chat return a failure; a successful result carries a
\* defined text.
C24_MalformedResponse ==
    (fnCall.fn = "chat" /\ fnCall.done /\ fnCall.ok) =>
        /\ fnCall.depth < Len(TextPath[fnCall.model]) => ~fnCall.out.success
        /\ fnCall.out.success => fnCall.out.response.defined

\* the positions of the chunks addToKnowledgeBase stored (it marks them
\* enhancedForBridge)
AddedChunks ==
    {k \in 1..Len(globalVectorStore) :
        "enhancedForBridge" \in DOMAIN globalVectorStore[k].metadata}

\* C25 (ingest-to-ask visibility): in every credential configuration the
\* chunks addToKnowledgeBase stored are among the candidates a later
\* askQuestion scores: a question whose retrieval succeeds and keeps the
\* default of five matches gets every one of them as a match.
C25_IngestToAskVisibility ==
    (/\ last.op = "ask"
     /\ last.retrieval.success
     /\ "maxSources" \notin DOMAIN last.options) =>
        \A k \in AddedChunks :
            \E j \in 1..Len(last.retrieval.matches) :
                /\ last.retrieval.matches[j].id = globalVectorStore[k].id
                /\ last.retrieval.matches[j].metadata = globalVectorStore[k].metadata

\* the document ids with at least one chunk in the local store
StoredDocuments ==
    {globalVectorStore[k].metadata.fileId : k \in 1..Len(globalVectorStore)}

\* C26 (status counts): on the local store getKnowledgeBaseStatus reports
\* as vectorCount the number of chunk records and as documentCount the
\* number of distinct document ids with at least one chunk.
C26_StatusCounts ==
    (/\ last.op = "status"
     /\ ~PineconeConfigured(env)) =>
        /\ last.status.found
        /\ last.status.vectorCount = Len(globalVectorStore)
        /\ last.status.documentCount = Cardinality(StoredDocuments)

\* the positions of the retrieved matches whose score reaches the threshold
RelevantPositions ==
    {j \in 1..Len(last.retrieval.matches) :
        last.retrieval.matches[j].score >= last.minRelevanceScore}

\* the k-th of them in retrieval order
NthRelevant(k) ==
    CHOOSE j \in RelevantPositions :
        Cardinality({i \in RelevantPositions : i <= j}) = k

\* the excerpt is the first 300 characters of the text, followed by '...'
\* only when the text is longer
IsExcerptOf(excerpt, text) ==
    IF Len(text) > 300
    THEN /\ Len(excerpt) = 303
         /\ \A c \in 1..300 : excerpt[c] = text[c]
         /\ \A c \in 301..303 : excerpt[c] = 46
    ELSE excerpt = text

\* C27 (sources shape): in a successful grounded result of askQuestion the
\* sources are one entry per retrieved match whose score reaches
\* minRelevanceScore, in retrieval order (scores descending), at most
\* maxSources of them, each excerpt the first 300 characters of the chunk
\* text with an ellipsis only when the text is longer.
C27_SourcesShape ==
    (last.op = "ask" /\ last.res.success /\ last.path = "grounded") =>
        /\ Len(last.res.sources) = Cardinality(RelevantPositions)
        /\ Len(last.res.sources)
                <= OrDefault(last.options, "maxSources", DefaultMaxSources)
        /\ \A k \in 1..Len(last.res.sources) :
            /\ IsExcerptOf(last.res.sources[k].content,
                           last.retrieval.matches[NthRelevant(k)].content)
            /\ k > 1 => last.retrieval.matches[NthRelevant(k)].score
                            <= last.retrieval.matches[NthRelevant(k - 1)].score

\* a grounded answer with two sources, one excerpt cut at 300 characters and
\* one whole, made while some retrieved match stayed below the threshold
C27_Witness ==
    /\ last.op = "ask"
    /\ last.res.success
    /\ last.path = "grounded"
    /\ Len(last.res.sources) >= 2
    /\ Len(last.res.sources) < Len(last.retrieval.matches)
    /\ \E k \in 1..Len(last.res.sources) : Len(last.res.sources[k].content) = 303
    /\ \E k \in 1..Len(last.res.sources) : Len(last.res.sources[k].content) < 300

\* the vector has norm 0: every component is 0
ZeroNorm(vector) == \A i \in 1..Len(vector) : vector[i] = 0

\* C28 (zero-norm similarity): for two vectors of the same length of which
\* one has norm 0, calculateCosineSimilarity returns exactly 0; it neither
\* throws nor returns another value.
C28_ZeroNormSimilarity ==
    (/\ fnCall.fn = "calculateCosineSimilarity"
     /\ fnCall.done
     /\ Len(fnCall.vectorA) = Len(fnCall.vectorB)
     /\ ZeroNorm(fnCall.vectorA) \/ ZeroNorm(fnCall.vectorB)) =>
        /\ ~fnCall.out.threw
        /\ fnCall.out.value = 0

\* a finished call on a vector of norm 0 and a vector of the same length
\* that has a component other than 0
C28_Witness ==
    /\ fnCall.fn = "calculateCosineSimilarity"
    /\ fnCall.done
    /\ Len(fnCall.vectorA) = Len(fnCall.vectorB)
    /\ ZeroNorm(fnCall.vectorA)
    /\ ~ZeroNorm(fnCall.vectorB)

\* the records the ingestion appended to the store
IngestedRecords ==
    [k \in 1..(Len(globalVectorStore) - Len(fnCall.before)) |->
        globalVectorStore[Len(fnCall.before) + k]]

\* C29 (core fields not overridable by metadata): whatever the caller's
\* metadata map holds, the records an ingestion stored carry the fileId,
\* fileName and fileType of the call and the text of their chunk, and the
\* removal of that document id leaves none of them in the store.
C29_CoreFields ==
    /\ (fnCall.fn = "ingest" /\ fnCall.stage = "ingested") =>
        /\ Len(IngestedRecords) = Len(fnCall.chunks)
        /\ \A k \in 1..Len(IngestedRecords) :
            /\ IngestedRecords[k].metadata.fileId = fnCall.fileId
            /\ IngestedRecords[k].metadata.fileName = fnCall.fileName
            /\ IngestedRecords[k].metadata.fileType = fnCall.fileType
            /\ IngestedRecords[k].metadata.content = fnCall.chunks[k]
    /\ (fnCall.fn = "ingest" /\ fnCall.stage = "removed") =>
        \A k \in 1..Len(globalVectorStore) :
            globalVectorStore[k].id[1] # fnCall.fileId

\* C30 (empty ingestion): the ingestion of a text that is empty or holds
\* white space only makes no chunk, returns success false and leaves the
\* store as it was before the call.
C30_EmptyIngestion ==
    (/\ fnCall.fn = "ingest"
     /\ fnCall.stage = "ingested"
     /\ Blank(fnCall.content)) =>
        /\ Len(fnCall.chunks) = 0
        /\ ~fnCall.res.success
        /\ globalVectorStore = fnCall.before

=============================================================================
